---- MODULE Spec2Model ----
(***************************************************************************)
(* Model of the Avalara Excise tax plugin (excise/utils.py, plugin.py,     *)
(* tasks.py): the request builder, the transport client, the tax-data      *)
(* cache, the metadata reconciler and the plugin hooks.                    *)
(*                                                                         *)
(* Money is counted in mills (1/1000 of the currency unit), so that the    *)
(* vendor's sub-cent tax amounts and the quantization to cents are both    *)
(* representable.  A Python dict is a record with a field "keys" naming    *)
(* the keys that are present; Optional values are sets of at most one      *)
(* element ({} is None).                                                   *)
(***************************************************************************)
EXTENDS Integers, Sequences, FiniteSets, TLC

VARIABLES
    checkout,           \* the checkout row and its lines
    order,              \* the order row
    config,             \* plugin configuration and site settings (immutable)
    cache,              \* django cache: key -> entry with its timeout
    checkout_metadata,  \* persistent metadata of the checkout row
    queue,              \* background tasks enqueued and not yet run
    subject,            \* the entity this behaviour follows
    calls,              \* concurrent tax-data calls: where each one stands
    last                \* what the last operation did (observation only)

vars ==
    <<checkout, order, config, cache, checkout_metadata, queue, subject, calls,
      last>>

----------------------------------------------------------------------------
(* Bounds of the model *)

MaxQuantity == 2
MaxQueue == 1
MaxWorkers == 2

(* Program constants *)

CACHE_TIME == 3600
FAILURE_CACHE_TIME == 10
CurrencyQuantum == 10

CACHE_KEY == "avatax_request_id_"
TRANSACTION_TYPE == "DIRECT"
SHIPPING_UNIT_OF_MEASURE == "EA"
CHECKOUT_TOKEN == "checkout-token"
ORDER_TOKEN == "order-token"

LineIds == {1, 2}

----------------------------------------------------------------------------
(* Python values *)

Some(v) == {v}
None == {}
TheValue(opt) == CHOOSE v \in opt : TRUE

(* A local variable assigned once from a call is written
   TheValue({ ... x ... : x \in {call}}): the call is made once and x names
   its result. *)

RECURSIVE SumSeq(_)
SumSeq(s) == IF s = <<>> THEN 0 ELSE Head(s) + SumSeq(Tail(s))

(* A decoded JSON object of the vendor (a dict): the keys that are present
   and the value of each; an absent key holds a fixed filler. *)
EmptyMapping ==
    [keys |-> {}, Status |-> "", ErrorCode |-> "", ReturnCode |-> 0,
     TotalTaxAmount |-> 0, TransactionTaxes |-> <<>>,
     TransactionErrors |-> <<>>, UserTranId |-> ""]

Get(m, k, default) == IF k \in m.keys THEN m[k] ELSE default

Truthy(m) == m.keys # {}

----------------------------------------------------------------------------
(* The vendor: what one HTTP POST can come back with *)

TaxEntry(invoice_line, tax_amount) ==
    [InvoiceLine |-> invoice_line, TaxAmount |-> tax_amount,
     Currency |-> Some("USD")]

SuccessKeys ==
    {"Status", "ReturnCode", "TotalTaxAmount", "TransactionTaxes", "UserTranId"}

ErrorKeys == {"Status", "ReturnCode", "TransactionErrors"}

(* Cent-precise amounts: 1.50 on line 1, 0.50 on line 2, 2.00 in total. *)
SuccessCents ==
    [EmptyMapping EXCEPT
        !.keys = SuccessKeys, !.Status = "Success",
        !.TotalTaxAmount = 2000,
        !.TransactionTaxes = <<TaxEntry(1, 1500), TaxEntry(2, 500)>>,
        !.UserTranId = "tran-1"]

(* Sub-cent amounts, two entries for line 1 and one for the shipping line. *)
SuccessMills ==
    [EmptyMapping EXCEPT
        !.keys = SuccessKeys, !.Status = "Success",
        !.TotalTaxAmount = 1262,
        !.TransactionTaxes =
            <<TaxEntry(1, 1004), TaxEntry(0, 8), TaxEntry(1, 250)>>,
        !.UserTranId = "tran-2"]

ErrorsGeneric ==
    [EmptyMapping EXCEPT
        !.keys = ErrorKeys, !.Status = "Errors found", !.ReturnCode = 1,
        !.TransactionErrors = <<[ErrorMessage |-> "Invalid product code"]>>]

ErrorsValidation ==
    [EmptyMapping EXCEPT
        !.keys = ErrorKeys \cup {"ErrorCode"}, !.Status = "Errors found",
        !.ReturnCode = 1, !.ErrorCode = "-1003",
        !.TransactionErrors = <<[ErrorMessage |-> "Invalid address"]>>]

VendorObjects == {SuccessCents, SuccessMills, ErrorsGeneric, ErrorsValidation}

HttpResponse(status_code, body, json) ==
    [exception |-> FALSE, status_code |-> status_code, body |-> body,
     json |-> json]

RequestException ==
    [exception |-> TRUE, status_code |-> 0, body |-> "", json |-> EmptyMapping]

HttpOutcomes ==
    {RequestException,
     HttpResponse(401, "not_json", EmptyMapping),
     HttpResponse(200, "not_json", EmptyMapping),
     HttpResponse(200, "json_array", EmptyMapping)}
    \cup {HttpResponse(200, "json_object", m) : m \in VendorObjects}

----------------------------------------------------------------------------
(* Transport client *)

Return(v) == [kind |-> "return", exc |-> "", value |-> v]
Raise(e, filler) == [kind |-> "raise", exc |-> e, value |-> filler]

(* One requests.post, then the status check, the decode and the Status
   check.  A body that is valid JSON but no object has no .get.  *)
api_post_request_swallow_mutant(url, data, http) ==
    IF http.exception \/ http.status_code = 401 \/ http.body = "not_json"
    THEN Return(EmptyMapping) @@ [posts |-> 1]
    ELSE IF http.body # "json_object"
    THEN Raise("AttributeError", EmptyMapping) @@ [posts |-> 1]
    ELSE IF Get(http.json, "Status", "") = "Errors found"
    THEN Return(EmptyMapping) @@ [posts |-> 1]
    ELSE Return(http.json) @@ [posts |-> 1]

api_post_request(url, data, http) ==
    IF http.exception
    THEN Return(EmptyMapping) @@ [posts |-> 1]
    ELSE IF http.status_code = 401
    THEN Return(EmptyMapping) @@ [posts |-> 1]
    ELSE IF http.body = "not_json"
    THEN Return(EmptyMapping) @@ [posts |-> 1]
    ELSE IF http.body # "json_object"
    THEN Raise("AttributeError", EmptyMapping) @@ [posts |-> 1]
    ELSE IF Get(http.json, "Status", "") = "Errors found"
    THEN Return(http.json) @@ [posts |-> 1]
    ELSE Return(http.json) @@ [posts |-> 1]

----------------------------------------------------------------------------
(* Host platform collaborators *)

Sku(line_id) == IF line_id = 1 THEN "SKU-1" ELSE "SKU-2"

UnitPriceOf(line_id) == IF line_id = 1 THEN 10000 ELSE 5000

(* base_calculations.base_checkout_line_total: unit price times quantity,
   nothing taxed yet. *)
base_checkout_line_total(co, line_id) ==
    [net |-> UnitPriceOf(line_id) * co.quantity[line_id],
     gross |-> UnitPriceOf(line_id) * co.quantity[line_id]]

(* The ids of the checkout's lines, in order. *)
LinesInfo == <<1, 2>>

(* quantize_price: round half up to the currency's precision. *)
quantize_price(amount) ==
    ((2 * amount + CurrencyQuantum) \div (2 * CurrencyQuantum)) * CurrencyQuantum

_skip_plugin_never_mutant(cfg) == FALSE

(* AvataxPlugin._skip_plugin *)
_skip_plugin(cfg) == ~cfg.active

----------------------------------------------------------------------------
(* Request builder *)

TransactionLine(invoice_line, product_code, unit_price, billed_units, line_amount, tax_included, address, discounted, user_data) ==
    [InvoiceLine |-> invoice_line, ProductCode |-> product_code,
     UnitPrice |-> unit_price, BilledUnits |-> billed_units,
     LineAmount |-> line_amount, TaxIncluded |-> tax_included,
     Destination |-> address, Sale |-> address,
     Discounted |-> discounted, UserData |-> user_data]

append_line_to_data_unit_mutant(data, line_id, quantity, amount, tax_included, shipping_address, discounted) ==
    Append(data,
           TransactionLine(Some(line_id), Sku(line_id),
                           Some(UnitPriceOf(line_id)), Some(1),
                           UnitPriceOf(line_id), tax_included,
                           shipping_address, discounted, Sku(line_id)))

append_line_to_data(data, line_id, quantity, amount, tax_included, shipping_address, discounted) ==
    Append(data,
           TransactionLine(Some(line_id), Sku(line_id), Some(amount),
                           Some(quantity), amount, tax_included,
                           shipping_address, discounted, Sku(line_id)))

append_shipping_to_data_unconditional_mutant(data, shipping_product_code, shipping_address, shipping_method_channel_listings, cfg) ==
    IF shipping_method_channel_listings # None
    THEN Append(data,
                TransactionLine(None, shipping_product_code, None, None,
                                TheValue(shipping_method_channel_listings),
                                FALSE, shipping_address, FALSE, "Shipping"))
    ELSE data

append_shipping_to_data(data, shipping_product_code, shipping_address, shipping_method_channel_listings, cfg) ==
    IF cfg.charge_taxes_on_shipping /\ shipping_method_channel_listings # None
    THEN Append(data,
                TransactionLine(None, shipping_product_code, None, None,
                                TheValue(shipping_method_channel_listings),
                                FALSE, shipping_address, FALSE, "Shipping"))
    ELSE data

generate_request_data(transaction_type, lines, invoice_number, user_tran_id, discount) ==
    [EffectiveDate |-> "today", InvoiceDate |-> "today",
     InvoiceNumber |-> invoice_number, TitleTransferCode |-> "DEST",
     TransactionType |-> transaction_type, TransactionLines |-> lines,
     UserTranId |-> user_tran_id, Discount |-> discount]

NoRequest == generate_request_data("", <<>>, None, None, 0)

RECURSIVE CheckoutLinesFrom(_, _, _, _, _)
CheckoutLinesFrom(data, lines_info, co, cfg, discounted) ==
    IF lines_info = <<>> THEN data
    ELSE CheckoutLinesFrom(
            append_line_to_data(
                data, Head(lines_info), co.quantity[Head(lines_info)],
                base_checkout_line_total(co, Head(lines_info)).net,
                cfg.include_taxes_in_prices,
                TheValue(co.shipping_address), discounted),
            Tail(lines_info), co, cfg, discounted)

get_checkout_lines_data_unchecked_mutant(co, lines_info, cfg, discounted) ==
    Return(append_shipping_to_data(
               CheckoutLinesFrom(<<>>, lines_info,
                                 [co EXCEPT !.shipping_address = Some("none")],
                                 cfg, discounted),
               cfg.shipping_product_code, "none",
               co.shipping_method_channel_listings, cfg))

get_checkout_lines_data(co, lines_info, cfg, discounted) ==
    IF co.shipping_address = None
    THEN Raise("TaxError", <<>>)
    ELSE Return(append_shipping_to_data(
                    CheckoutLinesFrom(<<>>, lines_info, co, cfg, discounted),
                    cfg.shipping_product_code, TheValue(co.shipping_address),
                    co.shipping_method_channel_listings, cfg))

generate_request_data_from_checkout(co, lines_info, cfg) ==
    TheValue({
        IF lines.kind = "raise" THEN Raise(lines.exc, NoRequest)
        ELSE Return(generate_request_data(TRANSACTION_TYPE, lines.value,
                                          None, None, co.discount_amount))
        : lines \in {get_checkout_lines_data(co, lines_info, cfg,
                                             co.discount_amount > 0)}})

----------------------------------------------------------------------------
(* The shared cache (django.core.cache): entries carry their timeout *)

(* Strings that are put together from parts are sequences of their parts. *)
TaxDataKey(token_in_cache) == <<CACHE_KEY>> \o token_in_cache

get_metadata_key(key_name) == <<"mirumee.taxes.avalara_excise:", key_name>>

MetadataCacheKey(checkout_token) ==
    get_metadata_key("checkout_metadata_") \o <<checkout_token>>

CheckoutTokenInCache(checkout_token) == <<checkout_token>>

OrderTokenInCache(order_token) == <<"order_", order_token>>

CacheKeys ==
    {TaxDataKey(CheckoutTokenInCache(CHECKOUT_TOKEN)),
     TaxDataKey(OrderTokenInCache(ORDER_TOKEN)),
     MetadataCacheKey(CHECKOUT_TOKEN)}

cache_get(c, key) == IF c[key] = None THEN None ELSE Some(TheValue(c[key]).value)

cache_set_keep_first_mutant(c, key, value, timeout) ==
    IF c[key] # None THEN c
    ELSE [c EXCEPT ![key] = Some([value |-> value, ttl |-> timeout])]

cache_set(c, key, value, timeout) ==
    [c EXCEPT ![key] = Some([value |-> value, ttl |-> timeout])]

(* d seconds pass since the entries were set: those whose timeout is at   *)
(* most d are gone, the others are still there.  The clock itself is not  *)
(* part of the state; nothing in the code reads an entry's remaining life. *)
cache_age(c, d) ==
    [k \in DOMAIN c |->
        IF c[k] = None THEN None
        ELSE IF TheValue(c[k]).ttl <= d THEN None
        ELSE c[k]]

(* saleor.plugins.avatax.taxes_need_new_fetch: no entry, or another payload *)
taxes_need_new_fetch(data, token_in_cache, c) ==
    LET cached_data == cache_get(c, TaxDataKey(token_in_cache))
    IN  \/ cached_data = None
        \/ data # TheValue(cached_data)[1]

----------------------------------------------------------------------------
(* Tax-data cache: fetch or reuse *)

(* response: what the cache or the vendor call gave, None when the call
   raised. *)
Fetched(r, c, posts, hit) ==
    [kind |-> r.kind, exc |-> r.exc, value |-> r.value, cache |-> c,
     posts |-> posts, hit |-> hit,
     response |-> IF r.kind = "return" THEN Some(r.value) ELSE None]

_fetch_new_taxes_data_long_mutant(data, data_cache_key, c, http) ==
    TheValue({
        IF r.kind = "raise" THEN Fetched(r, c, r.posts, FALSE)
        ELSE Fetched(r, cache_set(c, data_cache_key, <<data, r.value>>,
                                  CACHE_TIME),
                     r.posts, FALSE)
        : r \in {api_post_request("transactions/create", data, http)}})

_fetch_new_taxes_data(data, data_cache_key, c, http) ==
    TheValue({
        IF r.kind = "raise" THEN Fetched(r, c, r.posts, FALSE)
        ELSE IF Truthy(r.value) /\ Get(r.value, "Status", "") = "Success"
        THEN Fetched(r, cache_set(c, data_cache_key, <<data, r.value>>,
                                  CACHE_TIME),
                     r.posts, FALSE)
        ELSE Fetched(r, cache_set(c, data_cache_key, <<data, r.value>>,
                                  FAILURE_CACHE_TIME),
                     r.posts, FALSE)
        : r \in {api_post_request("transactions/create", data, http)}})

get_cached_response_or_fetch_always_mutant(data, token_in_cache, force_refresh, c, http) ==
    _fetch_new_taxes_data(data, TaxDataKey(token_in_cache), c, http)

get_cached_response_or_fetch_stale_mutant(data, token_in_cache, force_refresh, c, http) ==
    LET data_cache_key == TaxDataKey(token_in_cache)
    IN  IF cache_get(c, data_cache_key) = None \/ force_refresh
        THEN _fetch_new_taxes_data(data, data_cache_key, c, http)
        ELSE Fetched(Return(TheValue(cache_get(c, data_cache_key))[2]),
                     c, 0, TRUE)

get_cached_response_or_fetch(data, token_in_cache, force_refresh, c, http) ==
    LET data_cache_key == TaxDataKey(token_in_cache)
    IN  IF taxes_need_new_fetch(data, token_in_cache, c) \/ force_refresh
        THEN _fetch_new_taxes_data(data, data_cache_key, c, http)
        ELSE Fetched(Return(TheValue(cache_get(c, data_cache_key))[2]),
                     c, 0, TRUE)

(* The payload that was built rides along with the outcome. *)
WithData(f, data) == f @@ [data |-> data]

get_checkout_tax_data(co, lines_info, cfg, c, http) ==
    TheValue({
        IF data.kind = "raise"
        THEN WithData(Fetched(Raise(data.exc, EmptyMapping), c, 0, FALSE), None)
        ELSE WithData(get_cached_response_or_fetch(
                          data.value, CheckoutTokenInCache(co.token), FALSE,
                          c, http),
                      Some(data.value))
        : data \in {generate_request_data_from_checkout(co, lines_info, cfg)}})

----------------------------------------------------------------------------
(* Metadata reconciler *)

_retrieve_meta_data_from_cache(token, c) == cache_get(c, token)

metadata_requires_update(metadata, token_in_cache, force_refresh, c) ==
    LET cached_metadata == _retrieve_meta_data_from_cache(token_in_cache, c)
    IN  IF force_refresh THEN TRUE
        ELSE IF cached_metadata = None THEN TRUE
        ELSE IF TheValue(cached_metadata) # metadata THEN TRUE
        ELSE FALSE

Reconciled(c, md, writes) == [cache |-> c, metadata |-> md, writes |-> writes]

process_checkout_metadata_always_mutant(metadata, co, force_refresh, cache_time, c, md) ==
    IF co.row_exists
    THEN Reconciled(
            cache_set(c, MetadataCacheKey(co.token),
                      [itemized_taxes |-> metadata], cache_time),
            Some([itemized_taxes |-> metadata]), 1)
    ELSE Reconciled(c, md, 0)

process_checkout_metadata_cache_first_mutant(metadata, co, force_refresh, cache_time, c, md) ==
    LET data_cache_key == MetadataCacheKey(co.token)
        tax_item == [itemized_taxes |-> metadata]
    IN  IF metadata_requires_update(tax_item, data_cache_key, FALSE, c)
           \/ force_refresh
        THEN IF co.row_exists
             THEN Reconciled(cache_set(c, data_cache_key, tax_item, cache_time),
                             Some(tax_item), 1)
             ELSE Reconciled(cache_set(c, data_cache_key, tax_item, cache_time),
                             md, 0)
        ELSE Reconciled(c, md, 0)

process_checkout_metadata(metadata, co, force_refresh, cache_time, c, md) ==
    LET data_cache_key == MetadataCacheKey(co.token)
        tax_item == [itemized_taxes |-> metadata]
    IN  IF metadata_requires_update(tax_item, data_cache_key, FALSE, c)
           \/ force_refresh
        THEN IF co.row_exists
             THEN Reconciled(cache_set(c, data_cache_key, tax_item, cache_time),
                             Some(tax_item), 1)
             ELSE Reconciled(c, md, 0)
        ELSE Reconciled(c, md, 0)

----------------------------------------------------------------------------
(* Plugin hooks: each yields what it returns or raises and what it did *)

TaxedMoney(net, gross) == [net |-> net, gross |-> gross]

zero_taxed_money == TaxedMoney(0, 0)

Effect(r, msg, c, md, posts, hit, data, response, writes, processed, enqueued) ==
    [kind |-> r.kind, exc |-> r.exc, value |-> r.value, msg |-> msg,
     cache |-> c, metadata |-> md, posts |-> posts, hit |-> hit,
     data |-> data, response |-> response, writes |-> writes,
     processed |-> processed, enqueued |-> enqueued]

(* Returned or raised without touching the vendor, the cache or the row. *)
NoEffect(r, c, md) ==
    Effect(r, <<>>, c, md, 0, FALSE, None, None, 0, None, <<>>)

(* After the tax data came from the cache or the vendor (t), nothing else. *)
AfterTaxData(r, t, md) ==
    Effect(r, <<>>, t.cache, md, t.posts, t.hit, t.data, t.response, 0, None,
           <<>>)

(* After the tax data (t) was handed to the metadata reconciler (m). *)
AfterMetadata(r, t, m) ==
    Effect(r, <<>>, m.cache, m.metadata, t.posts, t.hit, t.data, t.response,
           m.writes, Some(t.value), <<>>)

RECURSIVE _append_prices_of_not_taxed_lines(_, _, _, _)
_append_prices_of_not_taxed_lines(price, lines, co, cfg) ==
    IF lines = <<>> THEN price
    ELSE IF cfg.charge_taxes[Head(lines)]
    THEN _append_prices_of_not_taxed_lines(price, Tail(lines), co, cfg)
    ELSE _append_prices_of_not_taxed_lines(
            TaxedMoney(
                price.net + base_checkout_line_total(co, Head(lines)).net,
                price.gross + base_checkout_line_total(co, Head(lines)).gross),
            Tail(lines), co, cfg)

calculate_checkout_total_unquantized_mutant(co, lines, cfg, previous_value, valid, c, md, http) ==
    IF _skip_plugin(cfg) \/ ~valid
    THEN NoEffect(Return(previous_value), c, md)
    ELSE TheValue({
        IF t.kind = "raise"
        THEN AfterTaxData(Raise(t.exc, previous_value), t, md)
        ELSE IF ~Truthy(t.value) \/ t.value.Status = "Errors found"
        THEN AfterTaxData(Return(previous_value), t, md)
        ELSE AfterMetadata(
                Return(_append_prices_of_not_taxed_lines(
                    TaxedMoney(previous_value.net,
                               previous_value.net
                                 + Get(t.value, "TotalTaxAmount", 0)),
                    lines, co, cfg)),
                t,
                process_checkout_metadata(t.value, co, FALSE, CACHE_TIME,
                                          t.cache, md))
        : t \in {get_checkout_tax_data(co, lines, cfg, c, http)}})

calculate_checkout_total(co, lines, cfg, previous_value, valid, c, md, http) ==
    IF _skip_plugin(cfg) THEN NoEffect(Return(previous_value), c, md)
    ELSE IF ~valid THEN NoEffect(Return(previous_value), c, md)
    ELSE TheValue({
        IF t.kind = "raise"
        THEN AfterTaxData(Raise(t.exc, previous_value), t, md)
        ELSE IF ~Truthy(t.value)
        THEN AfterTaxData(Return(previous_value), t, md)
        ELSE IF "Status" \notin t.value.keys
        THEN AfterTaxData(Raise("KeyError", previous_value), t, md)
        ELSE IF t.value.Status = "Errors found"
        THEN AfterTaxData(Return(previous_value), t, md)
        ELSE TheValue({
            AfterMetadata(
                Return(IF total.gross < zero_taxed_money.gross
                       THEN zero_taxed_money ELSE total),
                t,
                process_checkout_metadata(t.value, co, FALSE, CACHE_TIME,
                                          t.cache, md))
            : total \in {_append_prices_of_not_taxed_lines(
                             TaxedMoney(
                                 quantize_price(previous_value.net),
                                 quantize_price(
                                     previous_value.net
                                     + Get(t.value, "TotalTaxAmount", 0))),
                             lines, co, cfg)}})
        : t \in {get_checkout_tax_data(co, lines, cfg, c, http)}})

RECURSIVE ShippingTaxOf(_)
ShippingTaxOf(lines) ==
    IF lines = <<>> THEN 0
    ELSE (IF Head(lines).InvoiceLine = 0 THEN Head(lines).TaxAmount ELSE 0)
         + ShippingTaxOf(Tail(lines))

(* Each matching TaxAmount is added to shipping_net and to shipping_tax, and
   the gross is their sum. *)
_calculate_checkout_shipping(lines, shipping_price) ==
    LET shipping_tax == ShippingTaxOf(lines)
        shipping_net == shipping_price.net + ShippingTaxOf(lines)
    IN  TaxedMoney(shipping_net, shipping_net + shipping_tax)

calculate_checkout_shipping(co, lines, cfg, previous_value, valid, c, md, http) ==
    IF ~cfg.charge_taxes_on_shipping
    THEN NoEffect(Return(previous_value), c, md)
    ELSE IF _skip_plugin(cfg) THEN NoEffect(Return(previous_value), c, md)
    ELSE IF ~valid THEN NoEffect(Return(previous_value), c, md)
    ELSE TheValue({
        IF t.kind = "raise"
        THEN AfterTaxData(Raise(t.exc, previous_value), t, md)
        ELSE IF ~Truthy(t.value) \/ "error" \in t.value.keys
        THEN AfterTaxData(Return(previous_value), t, md)
        ELSE TheValue({
            IF Get(t.value, "TransactionTaxes", <<>>) = <<>>
            THEN AfterMetadata(Return(previous_value), t, m)
            ELSE AfterMetadata(
                    Return(_calculate_checkout_shipping(
                               Get(t.value, "TransactionTaxes", <<>>),
                               previous_value)),
                    t, m)
            : m \in {process_checkout_metadata(t.value, co, FALSE,
                                               CACHE_TIME, t.cache, md)}})
        : t \in {get_checkout_tax_data(co, lines, cfg, c, http)}})

----------------------------------------------------------------------------
(* Line totals *)

CheckoutTaxedPricesData(price_with_discounts, price_with_sale, undiscounted_price) ==
    [price_with_discounts |-> price_with_discounts,
     price_with_sale |-> price_with_sale,
     undiscounted_price |-> undiscounted_price]

OrderTaxedPricesData(price_with_discounts, undiscounted_price) ==
    [price_with_discounts |-> price_with_discounts,
     undiscounted_price |-> undiscounted_price]

(* The loop over TransactionTaxes: the tax summed over the entries of the
   line, and the currency of the first such entry that names one. *)
RECURSIVE LineTax(_, _)
LineTax(entries, line_id) ==
    IF entries = <<>> THEN 0
    ELSE (IF Head(entries).InvoiceLine = line_id
          THEN Head(entries).TaxAmount ELSE 0)
         + LineTax(Tail(entries), line_id)

RECURSIVE LineCurrency(_, _)
LineCurrency(entries, line_id) ==
    IF entries = <<>> THEN None
    ELSE IF Head(entries).InvoiceLine = line_id /\ Head(entries).Currency # None
    THEN Head(entries).Currency
    ELSE LineCurrency(Tail(entries), line_id)

_calculate_checkout_line_total_price_all_mutant(taxes_data, line_id, previous_value) ==
    LET net == previous_value.price_with_discounts.net
        tax == SumSeq([i \in DOMAIN taxes_data.TransactionTaxes |->
                          taxes_data.TransactionTaxes[i].TaxAmount])
    IN  IF ~Truthy(taxes_data) \/ tax <= 0 THEN previous_value
        ELSE CheckoutTaxedPricesData(TaxedMoney(net, net + tax),
                                     TaxedMoney(net, net + tax),
                                     previous_value.undiscounted_price)

_calculate_checkout_line_total_price(taxes_data, line_id, previous_value) ==
    IF ~Truthy(taxes_data) \/ "error" \in taxes_data.keys THEN previous_value
    ELSE
    LET entries == Get(taxes_data, "TransactionTaxes", <<>>)
        tax == LineTax(entries, line_id)
        currency == LineCurrency(entries, line_id)
    IN  IF tax > 0 /\ currency # None
        THEN LET net == previous_value.price_with_discounts.net
                 price_with_discounts == TaxedMoney(net, net + tax)
             IN  CheckoutTaxedPricesData(price_with_discounts,
                                         price_with_discounts,
                                         previous_value.undiscounted_price)
        ELSE previous_value

(* taxes_data is None (the empty set) when _get_order_tax_data gave up. *)
_calculate_order_line_total_price(taxes_data, line_id, previous_value) ==
    IF taxes_data = None THEN previous_value
    ELSE IF ~Truthy(TheValue(taxes_data))
            \/ "error" \in TheValue(taxes_data).keys
    THEN previous_value
    ELSE
    LET entries == Get(TheValue(taxes_data), "TransactionTaxes", <<>>)
        tax == LineTax(entries, line_id)
        currency == LineCurrency(entries, line_id)
    IN  IF tax > 0 /\ currency # None
        THEN LET net == previous_value.price_with_discounts.net
             IN  OrderTaxedPricesData(TaxedMoney(net, net + tax),
                                      previous_value.undiscounted_price)
        ELSE previous_value

calculate_checkout_line_total_taxed_mutant(co, lines, line_id, cfg, previous_value, valid, c, md, http) ==
    IF _skip_plugin(cfg) \/ ~valid
    THEN NoEffect(Return(previous_value), c, md)
    ELSE TheValue({
        IF t.kind = "raise"
        THEN AfterTaxData(Raise(t.exc, previous_value), t, md)
        ELSE IF ~Truthy(t.value) \/ t.value.Status = "Errors found"
        THEN AfterTaxData(Return(previous_value), t, md)
        ELSE AfterMetadata(
                Return(_calculate_checkout_line_total_price(
                           t.value, line_id, previous_value)),
                t,
                process_checkout_metadata(t.value, co, FALSE, CACHE_TIME,
                                          t.cache, md))
        : t \in {get_checkout_tax_data(co, lines, cfg, c, http)}})

calculate_checkout_line_total(co, lines, line_id, cfg, previous_value, valid, c, md, http) ==
    IF _skip_plugin(cfg) THEN NoEffect(Return(previous_value), c, md)
    ELSE IF ~cfg.charge_taxes[line_id]
    THEN NoEffect(Return(previous_value), c, md)
    ELSE IF ~valid THEN NoEffect(Return(previous_value), c, md)
    ELSE TheValue({
        IF t.kind = "raise"
        THEN AfterTaxData(Raise(t.exc, previous_value), t, md)
        ELSE IF ~Truthy(t.value)
        THEN AfterTaxData(Return(previous_value), t, md)
        ELSE IF "Status" \notin t.value.keys
        THEN AfterTaxData(Raise("KeyError", previous_value), t, md)
        ELSE IF t.value.Status = "Errors found"
        THEN AfterTaxData(Return(previous_value), t, md)
        ELSE AfterMetadata(
                Return(_calculate_checkout_line_total_price(
                           t.value, line_id, previous_value)),
                t,
                process_checkout_metadata(t.value, co, FALSE, CACHE_TIME,
                                          t.cache, md))
        : t \in {get_checkout_tax_data(co, lines, cfg, c, http)}})

----------------------------------------------------------------------------
(* Order creation *)

(* The loop over TransactionErrors: the messages concatenated (here: listed),
   ValidationError on the first error when the response's ErrorCode is
   "-1003", TaxError otherwise. *)
ErrorMessages_dropped_mutant(errors) == <<>>

ErrorMessages(errors) == [i \in DOMAIN errors |-> errors[i].ErrorMessage]

RaiseForErrors_generic_mutant(taxes_data, filler) ==
    Raise("TaxError", filler)
    @@ [msg |-> ErrorMessages(Get(taxes_data, "TransactionErrors", <<>>))]

RaiseForErrors(taxes_data, filler) ==
    LET has_errors == "TransactionErrors" \in taxes_data.keys
        errors == Get(taxes_data, "TransactionErrors", <<>>)
    IN  IF has_errors /\ errors # <<>>
           /\ Get(taxes_data, "ErrorCode", "") = "-1003"
        THEN Raise("ValidationError", filler) @@ [msg |-> <<errors[1].ErrorMessage>>]
        ELSE Raise("TaxError", filler) @@ [msg |-> ErrorMessages(errors)]

preprocess_order_creation(co, lines, cfg, previous_value, c, md, http) ==
    IF _skip_plugin(cfg) THEN NoEffect(Return(previous_value), c, md)
    ELSE TheValue({
        IF data.kind = "raise"
        THEN NoEffect(Raise(data.exc, previous_value), c, md)
        ELSE IF data.value.TransactionLines = <<>>
        THEN Effect(Return(previous_value), <<>>, c, md, 0, FALSE,
                    Some(data.value), None, 0, None, <<>>)
        ELSE TheValue({
            IF r.kind = "raise"
            THEN Effect(Raise(r.exc, previous_value), <<>>, c, md, r.posts,
                        FALSE, Some(data.value), None, 0, None, <<>>)
            ELSE IF ~Truthy(r.value) \/ Get(r.value, "Status", "") # "Success"
            THEN TheValue({
                     Effect(e, e.msg, c, md, r.posts, FALSE, Some(data.value),
                            Some(r.value), 0, None, <<>>)
                     : e \in {RaiseForErrors(r.value, previous_value)}})
            ELSE Effect(Return(previous_value), <<>>, c, md, r.posts, FALSE,
                        Some(data.value), Some(r.value), 0, None, <<>>)
            : r \in {api_post_request("transactions/create", data.value,
                                      http)}})
        : data \in {generate_request_data_from_checkout(co, lines, cfg)}})

----------------------------------------------------------------------------
(* Orders *)

OrderLinesInfo == <<1, 2>>

OrderQuantity(line_id) == IF line_id = 1 THEN 2 ELSE 1

RECURSIVE OrderLinesFrom(_, _, _, _, _)
OrderLinesFrom(data, order_lines, o, cfg, discounted) ==
    IF order_lines = <<>> THEN data
    ELSE IF ~o.has_variants
    THEN OrderLinesFrom(data, Tail(order_lines), o, cfg, discounted)
    ELSE OrderLinesFrom(
            append_line_to_data(
                data, Head(order_lines), OrderQuantity(Head(order_lines)),
                UnitPriceOf(Head(order_lines)) * OrderQuantity(Head(order_lines)),
                cfg.include_taxes_in_prices, TheValue(o.shipping_address),
                discounted),
            Tail(order_lines), o, cfg, discounted)

get_order_lines_data(o, cfg, discounted) ==
    IF o.shipping_address = None
    THEN Raise("TaxError", <<>>)
    ELSE Return(OrderLinesFrom(<<>>, OrderLinesInfo, o, cfg, discounted))

(* get_total_order_discount: the order carries no discount. *)
get_order_request_data(o, cfg) ==
    TheValue({
        IF lines.kind = "raise" THEN Raise(lines.exc, NoRequest)
        ELSE Return(generate_request_data(TRANSACTION_TYPE, lines.value,
                                          Some(o.pk), None, 0))
        : lines \in {get_order_lines_data(o, cfg, 0 > 0)}})

get_order_tax_data(o, cfg, force_refresh, c, http) ==
    TheValue({
        IF data.kind = "raise"
        THEN WithData(Fetched(Raise(data.exc, EmptyMapping), c, 0, FALSE), None)
             @@ [msg |-> <<>>]
        ELSE TheValue({
            IF t.kind = "raise"
            THEN WithData(t, Some(data.value)) @@ [msg |-> <<>>]
            ELSE IF Get(t.value, "Status", "") # "Success"
            THEN TheValue({
                     [WithData(t, Some(data.value)) EXCEPT
                          !.kind = "raise", !.exc = e.exc,
                          !.value = EmptyMapping]
                     @@ [msg |-> e.msg]
                     : e \in {RaiseForErrors(t.value, EmptyMapping)}})
            ELSE WithData(t, Some(data.value)) @@ [msg |-> <<>>]
            : t \in {get_cached_response_or_fetch(
                         data.value, OrderTokenInCache(o.token),
                         force_refresh, c, http)}})
        : data \in {get_order_request_data(o, cfg)}})

(* The value is an Optional: None when the plugin is skipped, the order is
   invalid or there is no usable data. *)
_get_order_tax_data(o, cfg, valid, c, http) ==
    IF _skip_plugin(cfg) \/ ~valid
    THEN [WithData(Fetched(Return(None), c, 0, FALSE), None)
             EXCEPT !.response = None] @@ [msg |-> <<>>]
    ELSE TheValue({
        IF t.kind = "raise" THEN [t EXCEPT !.value = None]
        ELSE IF ~Truthy(t.value) \/ "error" \in t.value.keys
        THEN [t EXCEPT !.value = None]
        ELSE [t EXCEPT !.value = Some(t.value)]
        : t \in {get_order_tax_data(o, cfg, FALSE, c, http)}})

AfterOrderTaxData(r, t, md) ==
    Effect(r, t.msg, t.cache, md, t.posts, t.hit, t.data, t.response, 0, None,
           <<>>)

calculate_order_line_total(o, line_id, cfg, previous_value, valid, c, md, http) ==
    IF _skip_plugin(cfg) THEN NoEffect(Return(previous_value), c, md)
    ELSE IF ~cfg.charge_taxes[line_id]
    THEN NoEffect(Return(previous_value), c, md)
    ELSE IF ~valid
    THEN NoEffect(Return(OrderTaxedPricesData(zero_taxed_money,
                                              zero_taxed_money)), c, md)
    ELSE TheValue({
        IF t.kind = "raise"
        THEN AfterOrderTaxData(Raise(t.exc, previous_value), t, md)
        ELSE AfterOrderTaxData(
                Return(_calculate_order_line_total_price(
                           t.value, line_id, previous_value)),
                t, md)
        : t \in {_get_order_tax_data(o, cfg, valid, c, http)}})

Times(price, quantity) ==
    TaxedMoney(price.net * quantity, price.gross * quantity)

DividedBy(price, quantity) ==
    TaxedMoney(price.net \div quantity, price.gross \div quantity)

calculate_order_line_unit(o, line_id, cfg, previous_value, valid, c, md, http) ==
    IF ~o.has_variants \/ (o.has_variants /\ ~cfg.charge_taxes[line_id])
    THEN NoEffect(Return(previous_value), c, md)
    ELSE TheValue({
        IF t.kind = "raise"
        THEN AfterOrderTaxData(Raise(t.exc, previous_value), t, md)
        ELSE TheValue({
            AfterOrderTaxData(
                Return(OrderTaxedPricesData(
                    DividedBy(taxed_total_prices_data.price_with_discounts,
                              OrderQuantity(line_id)),
                    DividedBy(taxed_total_prices_data.undiscounted_price,
                              OrderQuantity(line_id)))),
                t, md)
            : taxed_total_prices_data \in
                {_calculate_order_line_total_price(
                     t.value, line_id,
                     OrderTaxedPricesData(
                         Times(previous_value.price_with_discounts,
                               OrderQuantity(line_id)),
                         Times(previous_value.undiscounted_price,
                               OrderQuantity(line_id))))}})
        : t \in {_get_order_tax_data(o, cfg, valid, c, http)}})

calculate_order_shipping(o, cfg, previous_value, valid, c, md, http) ==
    IF _skip_plugin(cfg) THEN NoEffect(Return(previous_value), c, md)
    ELSE IF ~cfg.charge_taxes_on_shipping
    THEN NoEffect(Return(previous_value), c, md)
    ELSE IF ~valid THEN NoEffect(Return(zero_taxed_money), c, md)
    ELSE TheValue({
        IF t.kind = "raise"
        THEN AfterOrderTaxData(Raise(t.exc, previous_value), t, md)
        ELSE IF Get(t.value, "TransactionTaxes", <<>>) = <<>>
        THEN AfterOrderTaxData(Return(previous_value), t, md)
        ELSE AfterOrderTaxData(
                Return(_calculate_checkout_shipping(
                           Get(t.value, "TransactionTaxes", <<>>),
                           previous_value)),
                t, md)
        : t \in {get_order_tax_data(o, cfg, FALSE, c, http)}})

Task_without_autocommit_mutant(transaction_url, data, cfg, order_id, commit_url) ==
    [transaction_url |-> transaction_url, data |-> data,
     autocommit |-> FALSE, order_id |-> order_id,
     commit_url |-> commit_url, retries |-> 0]

Task(transaction_url, data, cfg, order_id, commit_url) ==
    [transaction_url |-> transaction_url, data |-> data,
     autocommit |-> cfg.autocommit, order_id |-> order_id,
     commit_url |-> commit_url, retries |-> 0]

order_created(o, cfg, previous_value, c, md) ==
    IF ~cfg.active THEN NoEffect(Return(previous_value), c, md)
    ELSE TheValue({
        IF request_data.kind = "raise"
        THEN NoEffect(Raise(request_data.exc, previous_value), c, md)
        ELSE Effect(Return(previous_value), <<>>, c, md, 0, FALSE,
                    Some(request_data.value), None, 0, None,
                    <<Task("transactions/create", request_data.value, cfg,
                           o.pk, Some("transactions/{}/commit"))>>)
        : request_data \in {get_order_request_data(o, cfg)}})

order_confirmed(o, cfg, previous_value, c, md) ==
    NoEffect(Return(previous_value), c, md)

----------------------------------------------------------------------------
(* Background task: submit the order's transaction, commit when asked *)

(* The task's decorator: which exceptions make the queue run it again, and
   how many times at most.  The delays between the runs are not modelled. *)
autoretry_for_any_mutant == {"TaxError", "AttributeError"}

autoretry_for == {"TaxError"}

max_retries == 5

(* What the queue puts back after a run that ended as d. *)
autoretry(task, d) ==
    IF d.kind = "raise" /\ d.exc \in autoretry_for
       /\ task.retries < max_retries
    THEN <<[task EXCEPT !.retries = @ + 1]>>
    ELSE <<>>

TaskDone(r, events, order_metadata, posts, commits, response) ==
    [kind |-> r.kind, exc |-> r.exc, events |-> events,
     order_metadata |-> order_metadata, posts |-> posts, commits |-> commits,
     response |-> response]

api_post_request_task_unguarded_mutant(task, o, http, commit_http) ==
    IF ~o.row_exists
    THEN TaskDone(Return(None), <<>>, o.metadata, 0, 0, None)
    ELSE TheValue({
        IF r.kind = "raise"
        THEN TaskDone(Raise(r.exc, None), <<>>, o.metadata, r.posts, 0, None)
        ELSE IF ~Truthy(r.value)
        THEN TaskDone(Return(None),
                      <<<<"Empty response received from Excise API, Order: ",
                          o.token>>>>,
                      o.metadata, r.posts, 0, Some(r.value))
        ELSE IF Get(r.value, "ReturnCode", -1) # 0
        THEN TaskDone(Return(None),
                      <<<<"Unable to send order to Avatax Excise. ">>
                        \o ErrorMessages(Get(r.value, "TransactionErrors",
                                             <<>>))>>,
                      o.metadata, r.posts, 0, Some(r.value))
        ELSE IF task.autocommit /\ task.commit_url # None
                /\ Get(r.value, "UserTranId", "") # ""
        THEN TheValue({
            IF k.kind = "raise"
            THEN TaskDone(Raise(k.exc, None), <<>>, o.metadata,
                          r.posts + k.posts, k.posts, Some(r.value))
            ELSE IF ~Truthy(k.value)
                    \/ Get(k.value, "Status", "") = "Errors found"
            THEN TaskDone(Return(None),
                          <<<<"Unable to commit order to Avatax Excise. ">>
                            \o ErrorMessages(Get(k.value, "TransactionErrors",
                                                 <<>>))>>,
                          Some([itemized_taxes |->
                                    Get(r.value, "TransactionTaxes", <<>>)]),
                          r.posts + k.posts, k.posts, Some(r.value))
            ELSE TaskDone(Return(None),
                          <<<<"Order committed to Avatax Excise. Order ID: ",
                              o.token>>>>,
                          Some([itemized_taxes |->
                                    Get(r.value, "TransactionTaxes", <<>>)]),
                          r.posts + k.posts, k.posts, Some(r.value))
            : k \in {api_post_request(task.commit_url, NoRequest,
                                      commit_http)}})
        ELSE TaskDone(Return(None),
                      <<<<"Order sent to Avatax Excise. Order ID: ",
                          o.token>>>>,
                      Some([itemized_taxes |->
                                Get(r.value, "TransactionTaxes", <<>>)]),
                      r.posts, 0, Some(r.value))
        : r \in {api_post_request(task.transaction_url, task.data, http)}})

api_post_request_task_always_commit_mutant(task, o, http, commit_http) ==
    IF ~o.row_exists
    THEN TaskDone(Return(None), <<>>, o.metadata, 0, 0, None)
    ELSE IF task.data.TransactionLines = <<>>
    THEN TaskDone(Return(None),
                  <<<<"The order doesn't have any line which should be sent to Avatax Excise.">>>>,
                  o.metadata, 0, 0, None)
    ELSE TheValue({
        IF r.kind = "raise"
        THEN TaskDone(Raise(r.exc, None), <<>>, o.metadata, r.posts, 0, None)
        ELSE IF ~Truthy(r.value)
        THEN TaskDone(Return(None),
                      <<<<"Empty response received from Excise API, Order: ",
                          o.token>>>>,
                      o.metadata, r.posts, 0, Some(r.value))
        ELSE IF Get(r.value, "ReturnCode", -1) # 0
        THEN TaskDone(Return(None),
                      <<<<"Unable to send order to Avatax Excise. ">>
                        \o ErrorMessages(Get(r.value, "TransactionErrors",
                                             <<>>))>>,
                      o.metadata, r.posts, 0, Some(r.value))
        ELSE IF task.commit_url # None
                /\ Get(r.value, "UserTranId", "") # ""
        THEN TheValue({
            IF k.kind = "raise"
            THEN TaskDone(Raise(k.exc, None), <<>>, o.metadata,
                          r.posts + k.posts, k.posts, Some(r.value))
            ELSE IF ~Truthy(k.value)
                    \/ Get(k.value, "Status", "") = "Errors found"
            THEN TaskDone(Return(None),
                          <<<<"Unable to commit order to Avatax Excise. ">>
                            \o ErrorMessages(Get(k.value, "TransactionErrors",
                                                 <<>>))>>,
                          Some([itemized_taxes |->
                                    Get(r.value, "TransactionTaxes", <<>>)]),
                          r.posts + k.posts, k.posts, Some(r.value))
            ELSE TaskDone(Return(None),
                          <<<<"Order committed to Avatax Excise. Order ID: ",
                              o.token>>>>,
                          Some([itemized_taxes |->
                                    Get(r.value, "TransactionTaxes", <<>>)]),
                          r.posts + k.posts, k.posts, Some(r.value))
            : k \in {api_post_request(task.commit_url, NoRequest,
                                      commit_http)}})
        ELSE TaskDone(Return(None),
                      <<<<"Order sent to Avatax Excise. Order ID: ",
                          o.token>>>>,
                      Some([itemized_taxes |->
                                Get(r.value, "TransactionTaxes", <<>>)]),
                      r.posts, 0, Some(r.value))
        : r \in {api_post_request(task.transaction_url, task.data, http)}})

api_post_request_task(task, o, http, commit_http) ==
    IF ~o.row_exists
    THEN TaskDone(Return(None), <<>>, o.metadata, 0, 0, None)
    ELSE IF task.data.TransactionLines = <<>>
    THEN TaskDone(Return(None),
                  <<<<"The order doesn't have any line which should be sent to Avatax Excise.">>>>,
                  o.metadata, 0, 0, None)
    ELSE TheValue({
        IF r.kind = "raise"
        THEN TaskDone(Raise(r.exc, None), <<>>, o.metadata, r.posts, 0, None)
        ELSE IF ~Truthy(r.value)
        THEN TaskDone(Return(None),
                      <<<<"Empty response received from Excise API, Order: ",
                          o.token>>>>,
                      o.metadata, r.posts, 0, Some(r.value))
        ELSE IF Get(r.value, "ReturnCode", -1) # 0
        THEN TaskDone(Return(None),
                      <<<<"Unable to send order to Avatax Excise. ">>
                        \o ErrorMessages(Get(r.value, "TransactionErrors",
                                             <<>>))>>,
                      o.metadata, r.posts, 0, Some(r.value))
        ELSE IF task.autocommit /\ task.commit_url # None
                /\ Get(r.value, "UserTranId", "") # ""
        THEN TheValue({
            IF k.kind = "raise"
            THEN TaskDone(Raise(k.exc, None), <<>>, o.metadata,
                          r.posts + k.posts, k.posts, Some(r.value))
            ELSE IF ~Truthy(k.value)
                    \/ Get(k.value, "Status", "") = "Errors found"
            THEN TaskDone(Return(None),
                          <<<<"Unable to commit order to Avatax Excise. ">>
                            \o ErrorMessages(Get(k.value, "TransactionErrors",
                                                 <<>>))>>,
                          Some([itemized_taxes |->
                                    Get(r.value, "TransactionTaxes", <<>>)]),
                          r.posts + k.posts, k.posts, Some(r.value))
            ELSE TaskDone(Return(None),
                          <<<<"Order committed to Avatax Excise. Order ID: ",
                              o.token>>>>,
                          Some([itemized_taxes |->
                                    Get(r.value, "TransactionTaxes", <<>>)]),
                          r.posts + k.posts, k.posts, Some(r.value))
            : k \in {api_post_request(task.commit_url, NoRequest,
                                      commit_http)}})
        ELSE TaskDone(Return(None),
                      <<<<"Order sent to Avatax Excise. Order ID: ",
                          o.token>>>>,
                      Some([itemized_taxes |->
                                Get(r.value, "TransactionTaxes", <<>>)]),
                      r.posts, 0, Some(r.value))
        : r \in {api_post_request(task.transaction_url, task.data, http)}})

----------------------------------------------------------------------------
(* The state machine *)

ShippingPrice == 3000

Configuration(active, autocommit, charge_taxes_on_shipping, untaxed_lines) ==
    [active |-> active, autocommit |-> autocommit,
     shipping_product_code |-> "TAXFREIGHT",
     charge_taxes_on_shipping |-> charge_taxes_on_shipping,
     include_taxes_in_prices |-> FALSE,
     charge_taxes |-> [l \in LineIds |-> l \notin untaxed_lines]]

(* Every flag is on in one configuration and off in another. *)
Configurations ==
    {Configuration(TRUE, TRUE, TRUE, {}),
     Configuration(TRUE, FALSE, FALSE, {1}),
     Configuration(FALSE, FALSE, TRUE, {})}

(* The checkout and the order share no cache key, no row and no task: a
   behaviour follows the one or the other. *)
Subjects == {"checkout", "order"}

NoOp ==
    [hook |-> "init", line |-> 0, previous |-> zero_taxed_money,
     kind |-> "return", exc |-> "", value |-> zero_taxed_money, msg |-> <<>>,
     posts |-> 0, commits |-> 0, hit |-> FALSE, data |-> None,
     response |-> None, writes |-> 0, processed |-> None, http |-> None,
     enqueued |-> 0, events |-> <<>>]

(* The request workers that may run a tax-data call at the same time, and
   a call that has not started. *)
Workers == 1..MaxWorkers

Idle ==
    [pc |-> "idle", data |-> None, path |-> "", http |-> None,
     kind |-> "", exc |-> "", response |-> None, wrote |-> FALSE]

Init ==
    /\ checkout = [token |-> CHECKOUT_TOKEN, row_exists |-> TRUE,
                   quantity |-> [l \in LineIds |-> 1],
                   shipping_address |-> Some("VA"),
                   shipping_method_channel_listings |-> Some(ShippingPrice),
                   discount_amount |-> 0]
    /\ order = [token |-> ORDER_TOKEN, pk |-> "order-pk", row_exists |-> TRUE,
                has_variants |-> TRUE, shipping_address |-> Some("VA"),
                metadata |-> None]
    /\ config \in Configurations
    /\ cache = [k \in CacheKeys |-> None]
    /\ checkout_metadata = None
    /\ queue = <<>>
    /\ subject \in Subjects
    /\ calls = [w \in Workers |-> Idle]
    /\ last = NoOp

(* What an operation is seen to have done. *)
Observed(hook, line, previous_value, http, e) ==
    [hook |-> hook, line |-> line, previous |-> previous_value,
     kind |-> e.kind, exc |-> e.exc, value |-> e.value, msg |-> e.msg,
     posts |-> e.posts, commits |-> 0, hit |-> e.hit, data |-> e.data,
     response |-> e.response, writes |-> e.writes, processed |-> e.processed,
     http |-> IF e.posts > 0 THEN Some(http) ELSE None,
     enqueued |-> Len(e.enqueued), events |-> <<>>]

Apply(on, hook, line, previous_value, http, e) ==
    /\ subject = on
    /\ Len(queue) + Len(e.enqueued) <= MaxQueue
    /\ cache' = e.cache
    /\ checkout_metadata' = e.metadata
    /\ queue' = queue \o e.enqueued
    /\ last' = Observed(hook, line, previous_value, http, e)
    /\ UNCHANGED <<calls, checkout, order, config, subject>>

(* The values the host platform hands to the hooks. *)
RECURSIVE CheckoutSubtotal(_, _)
CheckoutSubtotal(co, lines) ==
    IF lines = <<>> THEN 0
    ELSE base_checkout_line_total(co, Head(lines)).net
         + CheckoutSubtotal(co, Tail(lines))

PreviousTotal(co) ==
    TaxedMoney(CheckoutSubtotal(co, LinesInfo), CheckoutSubtotal(co, LinesInfo))

PreviousShipping(listing) ==
    IF listing = None THEN zero_taxed_money
    ELSE TaxedMoney(TheValue(listing), TheValue(listing))

PreviousCheckoutLine(co, line_id) ==
    CheckoutTaxedPricesData(base_checkout_line_total(co, line_id),
                            base_checkout_line_total(co, line_id),
                            base_checkout_line_total(co, line_id))

PreviousOrderLine(line_id) ==
    OrderTaxedPricesData(
        Times(TaxedMoney(UnitPriceOf(line_id), UnitPriceOf(line_id)),
              OrderQuantity(line_id)),
        Times(TaxedMoney(UnitPriceOf(line_id), UnitPriceOf(line_id)),
              OrderQuantity(line_id)))

PreviousOrderUnit(line_id) ==
    OrderTaxedPricesData(
        TaxedMoney(UnitPriceOf(line_id), UnitPriceOf(line_id)),
        TaxedMoney(UnitPriceOf(line_id), UnitPriceOf(line_id)))

(* The vendor answers only when it is asked: an operation that posts
   nothing has a single outcome. *)
Answers(posts) == IF posts > 0 THEN HttpOutcomes ELSE {RequestException}

CalculateCheckoutTotal ==
    \E valid \in BOOLEAN :
    \E http \in Answers(calculate_checkout_total(
                            checkout, LinesInfo, config,
                            PreviousTotal(checkout), valid, cache,
                            checkout_metadata, RequestException).posts) :
        Apply("checkout", "calculate_checkout_total", 0,
              PreviousTotal(checkout), http,
              calculate_checkout_total(
                  checkout, LinesInfo, config, PreviousTotal(checkout), valid,
                  cache, checkout_metadata, http))

CalculateCheckoutLineTotal ==
    \E line_id \in LineIds, valid \in BOOLEAN :
    \E http \in Answers(calculate_checkout_line_total(
                            checkout, LinesInfo, line_id, config,
                            PreviousCheckoutLine(checkout, line_id), valid,
                            cache, checkout_metadata, RequestException).posts) :
        Apply("checkout", "calculate_checkout_line_total", line_id,
              PreviousCheckoutLine(checkout, line_id), http,
              calculate_checkout_line_total(
                  checkout, LinesInfo, line_id, config,
                  PreviousCheckoutLine(checkout, line_id), valid,
                  cache, checkout_metadata, http))

CalculateCheckoutShipping ==
    \E valid \in BOOLEAN :
    \E http \in Answers(calculate_checkout_shipping(
                            checkout, LinesInfo, config,
                            PreviousShipping(
                                checkout.shipping_method_channel_listings),
                            valid, cache, checkout_metadata,
                            RequestException).posts) :
        Apply("checkout", "calculate_checkout_shipping", 0,
              PreviousShipping(checkout.shipping_method_channel_listings),
              http,
              calculate_checkout_shipping(
                  checkout, LinesInfo, config,
                  PreviousShipping(checkout.shipping_method_channel_listings),
                  valid, cache, checkout_metadata, http))

PreprocessOrderCreation ==
    \E lines \in {<<>>, LinesInfo} :
    \E http \in Answers(preprocess_order_creation(
                            checkout, lines, config, zero_taxed_money,
                            cache, checkout_metadata, RequestException).posts) :
        Apply("checkout", "preprocess_order_creation", 0, zero_taxed_money,
              http,
              preprocess_order_creation(
                  checkout, lines, config, zero_taxed_money,
                  cache, checkout_metadata, http))

OrderCreated ==
    /\ subject = "order"
    /\ Apply("order", "order_created", 0, zero_taxed_money, RequestException,
             order_created(order, config, zero_taxed_money, cache,
                           checkout_metadata))

OrderConfirmed ==
    /\ subject = "order"
    /\ Apply("order", "order_confirmed", 0, zero_taxed_money, RequestException,
             order_confirmed(order, config, zero_taxed_money, cache,
                             checkout_metadata))

CalculateOrderLineTotal ==
    \E line_id \in LineIds, valid \in BOOLEAN :
    \E http \in Answers(calculate_order_line_total(
                            order, line_id, config,
                            PreviousOrderLine(line_id), valid, cache,
                            checkout_metadata, RequestException).posts) :
        Apply("order", "calculate_order_line_total", line_id,
              PreviousOrderLine(line_id), http,
              calculate_order_line_total(
                  order, line_id, config, PreviousOrderLine(line_id), valid,
                  cache, checkout_metadata, http))

CalculateOrderLineUnit ==
    \E line_id \in LineIds, valid \in BOOLEAN :
    \E http \in Answers(calculate_order_line_unit(
                            order, line_id, config,
                            PreviousOrderUnit(line_id), valid, cache,
                            checkout_metadata, RequestException).posts) :
        Apply("order", "calculate_order_line_unit", line_id,
              PreviousOrderUnit(line_id), http,
              calculate_order_line_unit(
                  order, line_id, config, PreviousOrderUnit(line_id), valid,
                  cache, checkout_metadata, http))

CalculateOrderShipping ==
    \E valid \in BOOLEAN :
    \E http \in Answers(calculate_order_shipping(
                            order, config,
                            PreviousShipping(Some(ShippingPrice)), valid,
                            cache, checkout_metadata, RequestException).posts) :
        Apply("order", "calculate_order_shipping", 0,
              PreviousShipping(Some(ShippingPrice)), http,
              calculate_order_shipping(
                  order, config, PreviousShipping(Some(ShippingPrice)), valid,
                  cache, checkout_metadata, http))

(* utils.get_order_tax_data called with force_refresh=True (the plugin's own
   calls pass False). *)
RefreshOrderTaxData ==
    \E http \in Answers(get_order_tax_data(order, config, TRUE, cache,
                                           RequestException).posts) :
    \E t \in {get_order_tax_data(order, config, TRUE, cache, http)} :
        Apply("order", "get_order_tax_data", 0, zero_taxed_money, http,
              AfterOrderTaxData(
                  IF t.kind = "raise" THEN Raise(t.exc, EmptyMapping)
                  ELSE Return(t.value),
                  t, checkout_metadata))

(* The task queue runs the oldest task, and puts it back when the run raised
   an exception of autoretry_for. *)
RunTask ==
    /\ subject = "order"
    /\ queue # <<>>
    /\ \E http \in Answers(api_post_request_task(
                               Head(queue), order, RequestException,
                               RequestException).posts) :
       \E commit_http \in Answers(api_post_request_task(
                                      Head(queue), order, http,
                                      RequestException).commits) :
       \E d \in {api_post_request_task(Head(queue), order, http,
                                        commit_http)} :
            /\ order' = [order EXCEPT !.metadata = d.order_metadata]
            /\ last' = [NoOp EXCEPT
                            !.hook = "api_post_request_task",
                            !.kind = d.kind, !.exc = d.exc,
                            !.posts = d.posts, !.commits = d.commits,
                            !.http = IF d.posts > 0 THEN Some(http) ELSE None,
                            !.data = Some(Head(queue).data),
                            !.response = d.response,
                            !.events = d.events]
            /\ queue' = Tail(queue) \o autoretry(Head(queue), d)
    /\ UNCHANGED <<calls, checkout, config, cache, checkout_metadata, subject>>

(* The environment *)
Environment(name) == [NoOp EXCEPT !.hook = name]

UpdateLineQuantity ==
    \E quantity \in 1..MaxQuantity :
        /\ subject = "checkout"
        /\ quantity # checkout.quantity[1]
        /\ checkout' = [checkout EXCEPT !.quantity[1] = quantity]
        /\ last' = Environment("update_line_quantity")
        /\ UNCHANGED <<calls, order, config, cache, checkout_metadata, queue, subject>>

SetShippingAddress ==
    \E address \in {None, Some("VA")} :
        /\ subject = "checkout"
        /\ address # checkout.shipping_address
        /\ checkout' = [checkout EXCEPT !.shipping_address = address]
        /\ last' = Environment("set_shipping_address")
        /\ UNCHANGED <<calls, order, config, cache, checkout_metadata, queue, subject>>

SetOrderShippingAddress ==
    \E address \in {None, Some("VA")} :
        /\ subject = "order"
        /\ address # order.shipping_address
        /\ order' = [order EXCEPT !.shipping_address = address]
        /\ last' = Environment("set_order_shipping_address")
        /\ UNCHANGED <<calls, checkout, config, cache, checkout_metadata, queue, subject>>

(* The variants of the order's lines are deleted: line.variant is None. *)
DeleteVariants ==
    /\ subject = "order"
    /\ order.has_variants
    /\ order' = [order EXCEPT !.has_variants = FALSE]
    /\ last' = Environment("delete_variants")
    /\ UNCHANGED <<calls, checkout, config, cache, checkout_metadata, queue, subject>>

(* The order is deleted: Order.objects.filter(id=order_id).first() is None. *)
DeleteOrder ==
    /\ subject = "order"
    /\ order.row_exists
    /\ order' = [order EXCEPT !.row_exists = FALSE]
    /\ last' = Environment("delete_order")
    /\ UNCHANGED <<calls, checkout, config, cache, checkout_metadata, queue, subject>>

DeleteCheckout ==
    /\ subject = "checkout"
    /\ checkout.row_exists
    /\ checkout' = [checkout EXCEPT !.row_exists = FALSE]
    /\ last' = Environment("delete_checkout")
    /\ UNCHANGED <<calls, order, config, cache, checkout_metadata, queue, subject>>

Tick ==
    \E d \in {FAILURE_CACHE_TIME, CACHE_TIME} :
        /\ cache_age(cache, d) # cache
        /\ cache' = cache_age(cache, d)
        /\ last' = Environment("tick")
        /\ UNCHANGED <<calls, checkout, order, config, checkout_metadata, queue,
                       subject>>

Next ==
    \/ CalculateCheckoutTotal
    \/ CalculateCheckoutLineTotal
    \/ CalculateCheckoutShipping
    \/ PreprocessOrderCreation
    \/ OrderCreated
    \/ OrderConfirmed
    \/ CalculateOrderLineTotal
    \/ CalculateOrderLineUnit
    \/ CalculateOrderShipping
    \/ RefreshOrderTaxData
    \/ RunTask
    \/ UpdateLineQuantity
    \/ SetShippingAddress
    \/ SetOrderShippingAddress
    \/ DeleteVariants
    \/ DeleteOrder
    \/ DeleteCheckout
    \/ Tick

Spec == Init /\ [][Next]_vars

----------------------------------------------------------------------------
(* Concurrent calls of get_cached_response_or_fetch for one checkout token:
   every cache access and the vendor call are steps of their own, and the
   steps of the workers interleave.  Nothing is locked. *)

ConcurrentKey == TaxDataKey(CheckoutTokenInCache(checkout.token))

(* The payload of a worker that read the checkout while its first line had
   quantity q. *)
ConcurrentPayload(q) ==
    generate_request_data_from_checkout(
        [checkout EXCEPT !.quantity = [l \in LineIds |->
                                          IF l = 1 THEN q ELSE @[l]]],
        LinesInfo, config).value

(* `_, response = cache.get(data_cache_key)`: unpacking None is a TypeError. *)
UnpackCachedResponse(c, data_cache_key) ==
    IF cache_get(c, data_cache_key) = None
    THEN Raise("TypeError", EmptyMapping)
    ELSE Return(TheValue(cache_get(c, data_cache_key))[2])

ConcurrentInit ==
    /\ Init
    /\ subject = "checkout"

(* A worker enters get_cached_response_or_fetch with its payload. *)
EnterCall(w) ==
    /\ calls[w].pc = "idle"
    /\ \E q \in 1..MaxQuantity :
          calls' = [calls EXCEPT ![w] =
                       [Idle EXCEPT !.pc = "check",
                                    !.data = Some(ConcurrentPayload(q))]]
    /\ UNCHANGED <<checkout, order, config, cache, checkout_metadata, queue,
                   subject, last>>

(* taxes_need_new_fetch reads the entry and decides. *)
CheckEntry(w) ==
    /\ calls[w].pc = "check"
    /\ \E need \in {taxes_need_new_fetch(
                        TheValue(calls[w].data),
                        CheckoutTokenInCache(checkout.token), cache)} :
          calls' = [calls EXCEPT ![w].pc = IF need THEN "post" ELSE "read",
                                 ![w].path = IF need THEN "fetch" ELSE "hit"]
    /\ UNCHANGED <<checkout, order, config, cache, checkout_metadata, queue,
                   subject, last>>

(* _fetch_new_taxes_data: the vendor call. *)
PostRequest(w) ==
    /\ calls[w].pc = "post"
    /\ \E http \in HttpOutcomes :
       \E r \in {api_post_request("transactions/create",
                                  TheValue(calls[w].data), http)} :
          calls' = [calls EXCEPT ![w] =
                       IF r.kind = "raise"
                       THEN [@ EXCEPT !.pc = "done", !.kind = r.kind,
                                      !.exc = r.exc, !.http = Some(http)]
                       ELSE [@ EXCEPT !.pc = "set", !.http = Some(http),
                                      !.response = Some(r.value)]]
    /\ UNCHANGED <<checkout, order, config, cache, checkout_metadata, queue,
                   subject, last>>

(* _fetch_new_taxes_data: cache.set of the pair, then the return. *)
SetEntry(w) ==
    /\ calls[w].pc = "set"
    /\ \E f \in {_fetch_new_taxes_data(TheValue(calls[w].data), ConcurrentKey,
                                       cache, TheValue(calls[w].http))} :
          /\ cache' = f.cache
          /\ calls' = [calls EXCEPT ![w].pc = "done", ![w].kind = f.kind,
                                    ![w].wrote = TRUE]
          /\ last' = [NoOp EXCEPT !.hook = "_fetch_new_taxes_data",
                                  !.line = w,
                                  !.data = calls[w].data,
                                  !.response = f.response]
    /\ UNCHANGED <<checkout, order, config, checkout_metadata, queue, subject>>

(* The cache-hit branch: read the entry again and unpack it. *)
ReadEntry(w) ==
    /\ calls[w].pc = "read"
    /\ \E r \in {UnpackCachedResponse(cache, ConcurrentKey)} :
          calls' = [calls EXCEPT ![w] =
                       IF r.kind = "raise"
                       THEN [@ EXCEPT !.pc = "done", !.kind = r.kind,
                                      !.exc = r.exc]
                       ELSE [@ EXCEPT !.pc = "done", !.kind = r.kind,
                                      !.response = Some(r.value)]]
    /\ UNCHANGED <<checkout, order, config, cache, checkout_metadata, queue,
                   subject, last>>

(* The entry's timeout runs out while calls are under way. *)
EntryExpires ==
    /\ \E w \in Workers : calls[w].pc # "idle"
    /\ \E d \in {FAILURE_CACHE_TIME, CACHE_TIME} :
          /\ cache_age(cache, d) # cache
          /\ cache' = cache_age(cache, d)
    /\ UNCHANGED <<checkout, order, config, checkout_metadata, queue, subject,
                   calls, last>>

ConcurrentNext ==
    \/ \E w \in Workers : EnterCall(w)
    \/ \E w \in Workers : CheckEntry(w)
    \/ \E w \in Workers : PostRequest(w)
    \/ \E w \in Workers : SetEntry(w)
    \/ \E w \in Workers : ReadEntry(w)
    \/ EntryExpires

ConcurrentSpec == ConcurrentInit /\ [][ConcurrentNext]_vars

----------------------------------------------------------------------------
(* Properties *)

(* The hooks that ask the vendor for a tax calculation, and those among them
   that ask through get_cached_response_or_fetch. *)
CheckoutTaxCalculations ==
    {"calculate_checkout_total", "calculate_checkout_line_total",
     "calculate_checkout_shipping", "preprocess_order_creation"}

OrderTaxCalculations ==
    {"calculate_order_line_total", "calculate_order_line_unit",
     "calculate_order_shipping"}

CachedTaxCalculations ==
    (CheckoutTaxCalculations \cup OrderTaxCalculations)
        \ {"preprocess_order_creation"}

(* The cache key of the entity a hook calculates for. *)
TaxDataKeyOf(hook) ==
    IF hook \in CheckoutTaxCalculations
    THEN TaxDataKey(CheckoutTokenInCache(checkout.token))
    ELSE TaxDataKey(OrderTokenInCache(order.token))

(* C1: for calculations made for one entity token with an identical request
   payload, at most one vendor POST is made per cache TTL window: a
   calculation whose payload equals the payload of the entity's unexpired
   cache entry (the entry an earlier POST in the window left) makes no
   POST. *)
C1_AtMostOnePostPerPayloadPerWindow ==
    [][(/\ last'.hook \in CheckoutTaxCalculations \cup OrderTaxCalculations
        /\ last'.data # None
        /\ cache[TaxDataKeyOf(last'.hook)] # None
        /\ TheValue(cache[TaxDataKeyOf(last'.hook)]).value[1]
             = TheValue(last'.data))
       => last'.posts = 0]_vars

(* C2: when the cache holds an entry for the entity whose stored payload
   equals the newly built payload (force_refresh unset), the calculation
   makes no vendor call, obtains the stored response, and leaves the entry
   as it was. *)
C2_CacheHitMakesNoVendorCall ==
    [][(/\ last'.hook \in CachedTaxCalculations
        /\ last'.data # None
        /\ cache[TaxDataKeyOf(last'.hook)] # None
        /\ TheValue(cache[TaxDataKeyOf(last'.hook)]).value[1]
             = TheValue(last'.data))
       => /\ last'.posts = 0
          /\ last'.hit
          /\ last'.response
               = Some(TheValue(cache[TaxDataKeyOf(last'.hook)]).value[2])
          /\ cache'[TaxDataKeyOf(last'.hook)]
               = cache[TaxDataKeyOf(last'.hook)]]_vars

(* A calculation was answered from the cache. *)
C2_Witness ==
    /\ last.hook \in CachedTaxCalculations
    /\ last.hit
    /\ last.posts = 0
    /\ last.response # None
    /\ cache[TaxDataKeyOf(last.hook)] # None
    /\ TheValue(cache[TaxDataKeyOf(last.hook)]).value
         = <<TheValue(last.data), TheValue(last.response)>>

(* C3: when a checkout line's quantity differs from the quantity in the
   payload stored in the cache, the newly built payload differs from the
   stored one, the calculation makes a new vendor call, and the cache entry is
   overwritten with the new (payload, response) pair. *)
C3_ChangedQuantityRefetchesAndOverwrites ==
    [][(/\ last'.hook \in CachedTaxCalculations \cap CheckoutTaxCalculations
        /\ last'.data # None
        /\ cache[TaxDataKeyOf(last'.hook)] # None
        /\ \E l \in LineIds :
           \E i \in DOMAIN TheValue(cache[TaxDataKeyOf(last'.hook)])
                               .value[1].TransactionLines :
              LET stored == TheValue(cache[TaxDataKeyOf(last'.hook)])
                                .value[1].TransactionLines[i]
              IN  /\ stored.InvoiceLine = Some(l)
                  /\ stored.BilledUnits # Some(checkout.quantity[l]))
       => /\ TheValue(last'.data)
               # TheValue(cache[TaxDataKeyOf(last'.hook)]).value[1]
          /\ last'.posts = 1
          /\ last'.response # None
          /\ cache'[TaxDataKeyOf(last'.hook)] # None
          /\ TheValue(cache'[TaxDataKeyOf(last'.hook)]).value
               = <<TheValue(last'.data), TheValue(last'.response)>>]_vars

(* C4: with no shipping address on the checkout or the order, building the
   request raises TaxError before any HTTP call or task enqueue: every hook
   that gets as far as building the request raises TaxError, and no hook
   posts or enqueues anything. *)
C4_MissingShippingAddressRaisesBeforeAnyCall ==
    /\ (checkout.shipping_address = None /\ ~_skip_plugin(config)) =>
          \A http \in HttpOutcomes :
             /\ \A lines \in {<<>>, LinesInfo} :
                \A e \in {preprocess_order_creation(
                              checkout, lines, config, zero_taxed_money,
                              cache, checkout_metadata, http)} :
                       /\ e.kind = "raise" /\ e.exc = "TaxError"
                       /\ e.posts = 0 /\ e.enqueued = <<>>
             /\ \A e \in {calculate_checkout_total(
                              checkout, LinesInfo, config,
                              PreviousTotal(checkout), TRUE, cache,
                              checkout_metadata, http)} :
                    /\ e.kind = "raise" /\ e.exc = "TaxError"
                    /\ e.posts = 0 /\ e.enqueued = <<>>
    /\ (order.shipping_address = None /\ config.active) =>
          \A http \in HttpOutcomes :
             /\ \A e \in {order_created(order, config, zero_taxed_money,
                                        cache, checkout_metadata)} :
                    /\ e.kind = "raise" /\ e.exc = "TaxError"
                    /\ e.posts = 0 /\ e.enqueued = <<>>
             /\ \A l \in {x \in LineIds : config.charge_taxes[x]} :
                \A e \in {calculate_order_line_total(
                              order, l, config, PreviousOrderLine(l), TRUE,
                              cache, checkout_metadata, http)} :
                       /\ e.kind = "raise" /\ e.exc = "TaxError"
                       /\ e.posts = 0 /\ e.enqueued = <<>>
    /\ (\/ /\ last.hook \in CheckoutTaxCalculations
           /\ checkout.shipping_address = None
        \/ /\ last.hook \in OrderTaxCalculations \cup {"order_created"}
           /\ order.shipping_address = None)
       => /\ last.posts = 0
          /\ last.enqueued = 0
          /\ last.data = None
          /\ last.kind = "raise" => last.exc = "TaxError"

(* Order-creation preprocessing ran on a checkout without a shipping address
   and raised TaxError with nothing posted. *)
C4_Witness ==
    /\ last.hook = "preprocess_order_creation"
    /\ checkout.shipping_address = None
    /\ last.kind = "raise"
    /\ last.exc = "TaxError"
    /\ last.posts = 0

(* C5: api_post_request always returns a mapping and never raises: for every
   POST that was made the caller got a mapping, the empty one on a transport
   exception, on a body that does not decode and on HTTP 401, and one call
   made one POST. *)
C5_TransportAlwaysReturnsAMapping ==
    last.http # None =>
       /\ last.response # None
       /\ last.exc # "AttributeError"
       /\ (\/ TheValue(last.http).exception
           \/ TheValue(last.http).status_code = 401
           \/ TheValue(last.http).body = "not_json")
          => last.response = Some(EmptyMapping)
       /\ last.posts - last.commits = 1

(* C6: a decoded vendor response that carries the error status comes back
   from api_post_request unchanged, so it differs from what a transport
   failure yields, the empty mapping. *)
C6_VendorErrorPassedThrough ==
    last.http # None =>
       /\ (/\ ~TheValue(last.http).exception
           /\ TheValue(last.http).status_code # 401
           /\ TheValue(last.http).body = "json_object"
           /\ Get(TheValue(last.http).json, "Status", "") = "Errors found")
          => /\ last.response = Some(TheValue(last.http).json)
             /\ last.response # Some(EmptyMapping)
       /\ TheValue(last.http).exception => last.response = Some(EmptyMapping)

(* The vendor reported a validation error and order-creation preprocessing
   branched on it. *)
C6_Witness ==
    /\ last.hook = "preprocess_order_creation"
    /\ last.http = Some(HttpResponse(200, "json_object", ErrorsValidation))
    /\ last.response = Some(ErrorsValidation)
    /\ last.exc = "ValidationError"

(* C7: for a line whose product is not marked charge_taxes,
   calculate_checkout_line_total, calculate_order_line_total and
   calculate_order_line_unit return the previous value unchanged, with no
   vendor call, no cache write and no metadata write. *)
C7_UntaxedLineReturnsPreviousValue ==
    [][(/\ last'.hook \in {"calculate_checkout_line_total",
                           "calculate_order_line_total",
                           "calculate_order_line_unit"}
        /\ ~config.charge_taxes[last'.line])
       => /\ last'.kind = "return"
          /\ last'.value = last'.previous
          /\ last'.posts = 0
          /\ last'.writes = 0
          /\ cache' = cache
          /\ checkout_metadata' = checkout_metadata
          /\ order' = order
          /\ queue' = queue]_vars

(* The line total of an untaxed checkout line was asked of the active
   plugin. *)
C7_Witness ==
    /\ last.hook = "calculate_checkout_line_total"
    /\ config.active
    /\ ~config.charge_taxes[last.line]
    /\ last.value = last.previous

(* C8: a line total computed from a vendor response has the previous
   price_with_discounts net as its net, and as its gross that net plus the
   sum of the TaxAmount of the response's entries whose InvoiceLine is the
   line, quantized to the currency's precision. *)
C8_LineGrossIsQuantizedNetPlusLineTax ==
    (/\ last.hook \in {"calculate_checkout_line_total",
                       "calculate_order_line_total"}
     /\ last.kind = "return"
     /\ last.response # None
     /\ Get(TheValue(last.response), "Status", "") = "Success")
    => /\ last.value.price_with_discounts.net
            = last.previous.price_with_discounts.net
       /\ last.value.price_with_discounts.gross
            = quantize_price(
                  last.previous.price_with_discounts.net
                  + LineTax(Get(TheValue(last.response), "TransactionTaxes",
                                <<>>),
                            last.line))

(* Every line of the checkout is marked charge_taxes. *)
AllLinesTaxed == \A l \in LineIds : config.charge_taxes[l]

(* C9, as stated: for a valid checkout whose lines are all taxed and a
   successful vendor response, calculate_checkout_total returns the previous
   net as net and that net plus the response's TotalTaxAmount as gross. *)
C9_TotalGrossIsNetPlusTotalTax ==
    (/\ last.hook = "calculate_checkout_total"
     /\ AllLinesTaxed
     /\ last.processed # None
     /\ Get(TheValue(last.processed), "Status", "") = "Success")
    => /\ last.kind = "return"
       /\ last.value.net = last.previous.net
       /\ last.value.gross
            = last.value.net
              + Get(TheValue(last.processed), "TotalTaxAmount", 0)

(* C9, amended: the gross is the previous net plus TotalTaxAmount, quantized
   to the currency's precision (and never below zero). *)
C9_TotalGrossIsQuantizedNetPlusTotalTax ==
    (/\ last.hook = "calculate_checkout_total"
     /\ AllLinesTaxed
     /\ last.processed # None
     /\ Get(TheValue(last.processed), "Status", "") = "Success")
    => /\ last.kind = "return"
       /\ last.value.net = quantize_price(last.previous.net)
       /\ last.value.net = last.previous.net
       /\ last.value.gross
            = quantize_price(
                  last.previous.net
                  + Get(TheValue(last.processed), "TotalTaxAmount", 0))

(* The total of an all-taxed checkout was computed from a response whose
   total tax has a sub-cent part. *)
C9_Witness ==
    /\ last.hook = "calculate_checkout_total"
    /\ AllLinesTaxed
    /\ last.processed = Some(SuccessMills)
    /\ last.value.gross # last.value.net + SuccessMills.TotalTaxAmount

(* C10, as stated: metadata is written at most once per distinct itemized-tax
   blob per checkout: a calculation that yields the blob the checkout's
   metadata already holds causes no further write. *)
C10_NoWriteOfAnAppliedBlob ==
    [][last'.writes > 0 => checkout_metadata' # checkout_metadata]_vars

(* C10, amended: while the cached last-applied record is unexpired and equals
   the newly computed blob, the calculation writes nothing: the metadata and
   the record stay as they are. *)
C10_NoWriteWhileCachedRecordMatches ==
    [][(/\ last'.processed # None
        /\ cache[MetadataCacheKey(checkout.token)] # None
        /\ TheValue(cache[MetadataCacheKey(checkout.token)]).value
             = [itemized_taxes |-> TheValue(last'.processed)])
       => /\ last'.writes = 0
          /\ checkout_metadata' = checkout_metadata
          /\ cache'[MetadataCacheKey(checkout.token)]
               = cache[MetadataCacheKey(checkout.token)]]_vars

(* A calculation handed the reconciler the blob that is already applied and
   recorded, and nothing was written. *)
C10_Witness ==
    /\ last.processed # None
    /\ last.writes = 0
    /\ checkout.row_exists
    /\ checkout_metadata = Some([itemized_taxes |-> TheValue(last.processed)])
    /\ cache[MetadataCacheKey(checkout.token)] # None

(* C11: each checkout calculation hook returns the previous value unchanged
   whenever the plugin is skipped, its feature flag is off (taxes on
   shipping for the shipping hook, charge_taxes of the line for the line
   hook), the checkout is invalid, the tax data is the empty mapping of a
   failed vendor call, or the tax data carries the vendor's error status;
   and whenever it returns another value, the plugin was not skipped, the
   flag was on, the checkout was valid and the tax data was a successful
   vendor response. *)
C11_CheckoutHooksFallBackToPreviousValue ==
    subject = "checkout" =>
    \A valid \in BOOLEAN, http \in HttpOutcomes :
    \A o \in {[e |-> calculate_checkout_total(
                         checkout, LinesInfo, config, PreviousTotal(checkout),
                         valid, cache, checkout_metadata, http),
               previous |-> PreviousTotal(checkout),
               off |-> ~config.active],
              [e |-> calculate_checkout_shipping(
                         checkout, LinesInfo, config,
                         PreviousShipping(
                             checkout.shipping_method_channel_listings),
                         valid, cache, checkout_metadata, http),
               previous |-> PreviousShipping(
                                checkout.shipping_method_channel_listings),
               off |-> ~config.active \/ ~config.charge_taxes_on_shipping]}
         \cup {[e |-> calculate_checkout_line_total(
                          checkout, LinesInfo, l, config,
                          PreviousCheckoutLine(checkout, l), valid, cache,
                          checkout_metadata, http),
                previous |-> PreviousCheckoutLine(checkout, l),
                off |-> ~config.active \/ ~config.charge_taxes[l]]
               : l \in LineIds} :
        /\ (o.off \/ ~valid)
           => /\ o.e.kind = "return"
              /\ o.e.value = o.previous
              /\ o.e.posts = 0
        /\ (/\ o.e.response # None
            /\ \/ ~Truthy(TheValue(o.e.response))
               \/ Get(TheValue(o.e.response), "Status", "") = "Errors found")
           => /\ o.e.kind = "return"
              /\ o.e.value = o.previous
        /\ (o.e.kind = "return" /\ o.e.value # o.previous)
           => /\ ~o.off
              /\ valid
              /\ o.e.response # None
              /\ Get(TheValue(o.e.response), "Status", "") = "Success"

(* The shipping hook got the vendor's error response and returned the
   previous shipping price. *)
C11_Witness ==
    /\ last.hook = "calculate_checkout_shipping"
    /\ last.response = Some(ErrorsGeneric)
    /\ last.kind = "return"
    /\ last.value = last.previous

(* C12: when the vendor call of an order calculation hook
   (calculate_order_line_total, calculate_order_line_unit,
   calculate_order_shipping) gives the empty mapping of a transport or decode
   failure, the hook raises nothing and returns the previous value. *)
C12_OrderHooksFallBackOnTransportFailure ==
    (/\ last.hook \in OrderTaxCalculations
     /\ last.response = Some(EmptyMapping))
    => /\ last.kind = "return"
       /\ last.value = last.previous

(* C13: with the plugin active (and the order's request buildable),
   order_created and order_confirmed each enqueue one api_post_request_task
   carrying the order's transaction and return the previous value. *)
C13_OrderHooksEnqueueSubmission ==
    (/\ last.hook \in {"order_created", "order_confirmed"}
     /\ config.active
     /\ order.shipping_address # None)
    => /\ last.kind = "return"
       /\ last.value = last.previous
       /\ last.enqueued = 1
       /\ queue # <<>>
       /\ last.data # None
       /\ queue[Len(queue)].data = TheValue(last.data)
       /\ queue[Len(queue)].order_id = order.pk

(* The vendor objects that report a successful create or commit. *)
Successes == {m \in VendorObjects : Get(m, "Status", "") = "Success"}

(* C14: when api_post_request_task runs for an existing order whose request
   has transaction lines, the create call answers with ReturnCode 0,
   autocommit is on and the commit call succeeds, then the task returns
   None, makes one create and one commit call, records exactly one order
   event, the message "Order committed to Avatax Excise. Order ID: <token>",
   and the order's metadata holds the response's itemized taxes. *)
C14_CommittedOrderRecordsOneEventAndTaxes ==
    (/\ queue # <<>>
     /\ order.row_exists
     /\ config.autocommit)
    => \A m \in {v \in VendorObjects : Get(v, "ReturnCode", -1) = 0} :
       \A k \in Successes :
       \A d \in {api_post_request_task(
                     Head(queue), order, HttpResponse(200, "json_object", m),
                     HttpResponse(200, "json_object", k))} :
          Head(queue).data.TransactionLines # <<>>
          => /\ d.kind = "return"
             /\ d.posts = 2
             /\ d.commits = 1
             /\ d.events
                  = <<<<"Order committed to Avatax Excise. Order ID: ",
                        order.token>>>>
             /\ d.order_metadata
                  = Some([itemized_taxes |-> m.TransactionTaxes])

(* The task ran with autocommit on, committed, and left the event and the
   itemized taxes on the order. *)
C14_Witness ==
    /\ last.hook = "api_post_request_task"
    /\ config.autocommit
    /\ last.commits = 1
    /\ last.events
         = <<<<"Order committed to Avatax Excise. Order ID: ", order.token>>>>
    /\ last.response # None
    /\ order.metadata
         = Some([itemized_taxes |-> TheValue(last.response).TransactionTaxes])

(* C15: when the create call of api_post_request_task answers with a
   non-empty response whose ReturnCode is not 0, the task returns None after
   that one call, makes no commit call, leaves the order's metadata as it
   was, and records exactly one order event, whose message starts "Unable to
   send order to Avatax Excise." and holds every ErrorMessage of the
   response's TransactionErrors. *)
C15_RejectedOrderRecordsOneEventOnly ==
    (queue # <<>> /\ order.row_exists)
    => \A m \in {v \in VendorObjects :
                    Truthy(v) /\ Get(v, "ReturnCode", -1) # 0} :
       \A commit_http \in HttpOutcomes :
       \A d \in {api_post_request_task(
                     Head(queue), order, HttpResponse(200, "json_object", m),
                     commit_http)} :
          Head(queue).data.TransactionLines # <<>>
          => /\ d.kind = "return"
             /\ d.posts = 1
             /\ d.commits = 0
             /\ d.order_metadata = order.metadata
             /\ Len(d.events) = 1
             /\ d.events[1][1] = "Unable to send order to Avatax Excise. "
             /\ \A i \in DOMAIN Get(m, "TransactionErrors", <<>>) :
                \E j \in DOMAIN d.events[1] :
                   d.events[1][j] = m.TransactionErrors[i].ErrorMessage

(* The task ran, the vendor rejected the order, and the one event carries
   the vendor's message while the order has no tax metadata. *)
C15_Witness ==
    /\ last.hook = "api_post_request_task"
    /\ last.response = Some(ErrorsGeneric)
    /\ last.events
         = <<<<"Unable to send order to Avatax Excise. ",
               "Invalid product code">>>>
    /\ last.commits = 0
    /\ order.metadata = None

(* C16: when the request data handed to api_post_request_task has no
   TransactionLines, the task records exactly one order event, the message
   "The order doesn't have any line which should be sent to Avatax Excise.",
   makes no vendor call and leaves the order's metadata as it was; when the
   order does not exist, it records no event and makes no vendor call. *)
C16_NothingSentWithoutLinesOrOrder ==
    queue # <<>>
    => \A http \in HttpOutcomes, commit_http \in HttpOutcomes :
       \A d \in {api_post_request_task(Head(queue), order, http,
                                        commit_http)} :
          /\ (order.row_exists /\ Head(queue).data.TransactionLines = <<>>)
             => /\ d.kind = "return"
                /\ d.events
                     = <<<<"The order doesn't have any line which should be sent to Avatax Excise.">>>>
                /\ d.posts = 0
                /\ d.commits = 0
                /\ d.order_metadata = order.metadata
          /\ ~order.row_exists
             => /\ d.kind = "return"
                /\ d.events = <<>>
                /\ d.posts = 0
                /\ d.commits = 0
                /\ d.order_metadata = order.metadata

(* The task ran for an order none of whose lines has a variant: one event,
   no call, no metadata. *)
C16_Witness ==
    /\ last.hook = "api_post_request_task"
    /\ order.row_exists
    /\ last.data # None
    /\ TheValue(last.data).TransactionLines = <<>>
    /\ last.events
         = <<<<"The order doesn't have any line which should be sent to Avatax Excise.">>>>
    /\ last.posts = 0
    /\ order.metadata = None

(* C17: in preprocess_order_creation and in get_order_tax_data (the order
   calculation hooks), a vendor error response whose ErrorCode is "-1003" is
   raised as ValidationError with the vendor's error message: it is raised,
   and not as TaxError. *)
C17_ValidationErrorCodeIsEscalated ==
    (/\ last.hook \in {"preprocess_order_creation"} \cup OrderTaxCalculations
     /\ last.response # None
     /\ Get(TheValue(last.response), "Status", "") # "Success"
     /\ Get(TheValue(last.response), "ErrorCode", "") = "-1003")
    => /\ last.kind = "raise"
       /\ last.exc = "ValidationError"
       /\ last.exc # "TaxError"
       /\ last.msg
            = <<TheValue(last.response).TransactionErrors[1].ErrorMessage>>

(* An order calculation got the vendor's "-1003" error and raised
   ValidationError with its message. *)
C17_Witness ==
    /\ last.hook = "calculate_order_line_total"
    /\ last.response = Some(ErrorsValidation)
    /\ last.kind = "raise"
    /\ last.exc = "ValidationError"
    /\ last.msg = <<"Invalid address">>

(* C18: preprocess_order_creation returns (the previous value) only when the
   plugin is skipped, the request has no transaction lines, or the vendor
   response has Status "Success"; after every other vendor outcome it
   raises, ValidationError when the response's ErrorCode is "-1003" and
   TaxError otherwise. *)
C18_OrderCreationProceedsOnlyOnSuccess ==
    last.hook = "preprocess_order_creation"
    => /\ last.kind = "return"
          => /\ last.value = last.previous
             /\ \/ ~config.active
                \/ /\ last.data # None
                   /\ TheValue(last.data).TransactionLines = <<>>
                \/ /\ last.response # None
                   /\ Get(TheValue(last.response), "Status", "") = "Success"
       /\ (/\ last.posts > 0
           /\ ~(/\ last.response # None
                /\ Get(TheValue(last.response), "Status", "") = "Success"))
          => /\ last.kind = "raise"
             /\ last.exc
                  = IF /\ last.response # None
                       /\ Get(TheValue(last.response), "ErrorCode", "")
                            = "-1003"
                    THEN "ValidationError"
                    ELSE "TaxError"

(* C19: the queue runs an api_post_request_task again only when the run
   raised TaxError and fewer than max_retries (5) retries were made; a run
   that returns, or raises another error, is not run again.  One run makes
   at most one create call, so one enqueued submission makes at most 6. *)
C19_RetriedOnlyOnTaxErrorAtMostFiveTimes ==
    [][(last'.hook = "api_post_request_task" /\ queue # <<>>)
       => /\ \/ queue' = Tail(queue)
             \/ /\ last'.kind = "raise"
                /\ last'.exc = "TaxError"
                /\ Head(queue).retries < 5
                /\ queue' = Tail(queue)
                              \o <<[Head(queue) EXCEPT !.retries = @ + 1]>>
          /\ (last'.kind = "return" \/ last'.exc # "TaxError")
             => queue' = Tail(queue)
          /\ last'.posts - last'.commits <= 1
          /\ (Head(queue).retries + 1) * (last'.posts - last'.commits) <= 6
          /\ \A i \in DOMAIN queue' : queue'[i].retries <= 5]_vars

(* A run raised an error other than TaxError and the queue did not run the
   task again. *)
C19_Witness ==
    /\ last.hook = "api_post_request_task"
    /\ last.kind = "raise"
    /\ last.exc # "TaxError"
    /\ last.posts >= 1
    /\ queue = <<>>

(* The tax-data entries of the cache. *)
TaxDataKeys ==
    {TaxDataKey(CheckoutTokenInCache(CHECKOUT_TOKEN)),
     TaxDataKey(OrderTokenInCache(ORDER_TOKEN))}

(* C20: a response that came back from the vendor call is stored with its
   payload under the entity's key, for CACHE_TIME exactly when it is
   non-empty with Status "Success" and for 10 s otherwise.  Hence no entry
   with the long timeout holds a failure; while a failure's entry is there,
   an identical calculation makes no vendor call; the entry is gone once
   10 s have passed, and a calculation that finds no entry calls the vendor
   again. *)
C20_FailureCachedForShortTtlOnly ==
    [][/\ (/\ last'.hook \in CachedTaxCalculations
           /\ last'.posts = 1
           /\ last'.response # None)
          => cache'[TaxDataKeyOf(last'.hook)]
               = Some([value |-> <<TheValue(last'.data),
                                   TheValue(last'.response)>>,
                       ttl |-> IF /\ Truthy(TheValue(last'.response))
                                  /\ Get(TheValue(last'.response), "Status", "")
                                       = "Success"
                               THEN CACHE_TIME
                               ELSE FAILURE_CACHE_TIME])
       /\ \A k \in TaxDataKeys :
             (cache'[k] # None /\ TheValue(cache'[k]).ttl = CACHE_TIME)
             => /\ Truthy(TheValue(cache'[k]).value[2])
                /\ Get(TheValue(cache'[k]).value[2], "Status", "") = "Success"
       /\ (/\ last'.hook \in CachedTaxCalculations
           /\ last'.data # None
           /\ cache[TaxDataKeyOf(last'.hook)] # None
           /\ TheValue(cache[TaxDataKeyOf(last'.hook)]).ttl
                = FAILURE_CACHE_TIME
           /\ TheValue(cache[TaxDataKeyOf(last'.hook)]).value[1]
                = TheValue(last'.data))
          => /\ last'.posts = 0
             /\ last'.response
                  = Some(TheValue(cache[TaxDataKeyOf(last'.hook)]).value[2])
       /\ last'.hook = "tick"
          => \A k \in TaxDataKeys :
                (cache[k] # None /\ TheValue(cache[k]).ttl = FAILURE_CACHE_TIME)
                => cache'[k] = None
       /\ (/\ last'.hook \in CachedTaxCalculations
           /\ last'.data # None
           /\ cache[TaxDataKeyOf(last'.hook)] = None)
          => last'.posts = 1]_vars

(* A calculation was answered from the entry of a failed vendor call, kept
   for 10 s. *)
C20_Witness ==
    /\ last.hook \in CachedTaxCalculations
    /\ last.hit
    /\ last.posts = 0
    /\ last.response = Some(EmptyMapping)
    /\ cache[TaxDataKeyOf(last.hook)] # None
    /\ TheValue(cache[TaxDataKeyOf(last.hook)]).ttl = FAILURE_CACHE_TIME

(* C21: with force_refresh set, get_cached_response_or_fetch calls the
   vendor and overwrites the entity's cache entry with the new (payload,
   response) pair, whatever the cache held, an entry with the same payload
   included. *)
C21_ForceRefreshCallsVendorAndOverwrites ==
    [][(last'.hook = "get_order_tax_data" /\ last'.data # None)
       => /\ last'.posts = 1
          /\ ~last'.hit
          /\ last'.response # None
          /\ cache'[TaxDataKey(OrderTokenInCache(order.token))] # None
          /\ TheValue(cache'[TaxDataKey(OrderTokenInCache(order.token))]).value
               = <<TheValue(last'.data), TheValue(last'.response)>>]_vars

(* C22: process_checkout_metadata writes the checkout's metadata and sets
   the last-applied record exactly when the row exists and (no record is
   cached, or the cached record differs from the new one, or force_refresh
   is set); the record is set only together with a write, so without the row
   neither the metadata nor the record changes. *)
C22_MetadataWrittenOnlyOnChangeOrForce ==
    /\ subject = "checkout" =>
       \A metadata \in VendorObjects, force_refresh \in BOOLEAN :
       \A m \in {process_checkout_metadata(
                     metadata, checkout, force_refresh, CACHE_TIME, cache,
                     checkout_metadata)} :
          /\ m.writes = 1
             <=> /\ checkout.row_exists
                 /\ \/ force_refresh
                    \/ cache[MetadataCacheKey(checkout.token)] = None
                    \/ TheValue(cache[MetadataCacheKey(checkout.token)]).value
                         # [itemized_taxes |-> metadata]
          /\ m.writes = 1
             => /\ m.metadata = Some([itemized_taxes |-> metadata])
                /\ m.cache
                     = [cache EXCEPT ![MetadataCacheKey(checkout.token)] =
                           Some([value |-> [itemized_taxes |-> metadata],
                                 ttl |-> CACHE_TIME])]
          /\ m.writes # 1
             => /\ m.writes = 0
                /\ m.metadata = checkout_metadata
                /\ m.cache = cache
    /\ (last.processed # None /\ last.writes = 0 /\ ~checkout.row_exists)
       => (checkout_metadata = None
             => cache[MetadataCacheKey(checkout.token)] = None)

(* A checkout hook handed a vendor response to the reconciler after the
   checkout row was deleted: nothing was written and no record was set. *)
C22_Witness ==
    /\ last.processed # None
    /\ ~checkout.row_exists
    /\ last.writes = 0
    /\ checkout_metadata = None
    /\ cache[MetadataCacheKey(checkout.token)] = None

(* A successful create response that carries no transaction id. *)
SuccessWithoutTranId ==
    [SuccessCents EXCEPT !.keys = @ \ {"UserTranId"}, !.UserTranId = ""]

(* C23: a run of api_post_request_task makes at most one commit call, and
   makes it only when autocommit is true, a commit URL was given, the create
   call answered with ReturnCode 0 and the answer carries a UserTranId; with
   autocommit false it makes none. *)
C23_CommitGatedByAutocommit ==
    /\ queue # <<>>
       => \A http \in HttpOutcomes
                        \cup {HttpResponse(200, "json_object",
                                           SuccessWithoutTranId)},
             commit_http \in HttpOutcomes :
          \A d \in {api_post_request_task(Head(queue), order, http,
                                           commit_http)} :
             /\ d.commits <= 1
             /\ d.commits = 1
                => /\ Head(queue).autocommit
                   /\ config.autocommit
                   /\ Head(queue).commit_url # None
                   /\ d.posts = 2
                   /\ ~http.exception
                   /\ http.body = "json_object"
                   /\ Get(http.json, "ReturnCode", -1) = 0
                   /\ "UserTranId" \in http.json.keys
                   /\ http.json.UserTranId # ""
             /\ ~config.autocommit => d.commits = 0
    /\ last.hook = "api_post_request_task"
       => /\ last.commits <= 1
          /\ ~config.autocommit => last.commits = 0

(* The task ran with autocommit off: the order was sent and not committed. *)
C23_Witness ==
    /\ last.hook = "api_post_request_task"
    /\ ~config.autocommit
    /\ last.response = Some(SuccessCents)
    /\ last.commits = 0
    /\ last.events
         = <<<<"Order sent to Avatax Excise. Order ID: ", order.token>>>>

(* C24: a failed submission in api_post_request_task (the create call gives
   the empty mapping or a ReturnCode other than 0) is recorded as one order
   event, and among the outcomes of the vendor calls there is one on which
   the run raises TaxError, so that the queue runs the task again. *)
C24_SomeFailureRaisesTaxErrorForRetry ==
    (/\ queue # <<>>
     /\ order.row_exists
     /\ Head(queue).data.TransactionLines # <<>>)
    => /\ \A http \in HttpOutcomes, commit_http \in HttpOutcomes :
          \A d \in {api_post_request_task(Head(queue), order, http,
                                           commit_http)} :
             (/\ d.response # None
              /\ \/ ~Truthy(TheValue(d.response))
                 \/ Get(TheValue(d.response), "ReturnCode", -1) # 0)
             => Len(d.events) = 1
       /\ \E http \in HttpOutcomes, commit_http \in HttpOutcomes :
          \E d \in {api_post_request_task(Head(queue), order, http,
                                           commit_http)} :
             /\ d.kind = "raise"
             /\ d.exc = "TaxError"
             /\ autoretry(Head(queue), d) # <<>>

(* The positions of a request's lines that are the synthetic shipping line. *)
ShippingLinesOf(lines) ==
    {i \in 1..Len(lines) :
        /\ lines[i].InvoiceLine = None
        /\ lines[i].UserData = "Shipping"}

(* C25: the lines of a checkout request hold a shipping line, carrying the
   configured shipping product code, only if taxes are charged on shipping
   and the checkout has a shipping method listing; then there is exactly
   one and it comes after all the product lines; otherwise the request
   holds the product lines only. *)
C25_ShippingLineOnlyWhenChargedAndListed ==
    \A listings \in {None, Some(ShippingPrice)} :
    \A co \in {[checkout EXCEPT
                   !.shipping_method_channel_listings = listings]} :
    \A d \in {get_checkout_lines_data(co, LinesInfo, config,
                                      co.discount_amount > 0)} :
        d.kind = "return"
        => /\ \A i \in 1..Len(LinesInfo) :
                /\ d.value[i].InvoiceLine = Some(LinesInfo[i])
                /\ d.value[i].ProductCode = Sku(LinesInfo[i])
           /\ IF config.charge_taxes_on_shipping /\ listings # None
              THEN /\ Len(d.value) = Len(LinesInfo) + 1
                   /\ ShippingLinesOf(d.value) = {Len(d.value)}
                   /\ d.value[Len(d.value)].ProductCode
                          = config.shipping_product_code
                   /\ d.value[Len(d.value)].LineAmount = TheValue(listings)
              ELSE /\ Len(d.value) = Len(LinesInfo)
                   /\ ShippingLinesOf(d.value) = {}

(* A checkout calculation has built its request with taxes charged on
   shipping: the shipping line is the last of its lines. *)
C25_Witness ==
    /\ last.hook = "calculate_checkout_total"
    /\ config.charge_taxes_on_shipping
    /\ checkout.shipping_method_channel_listings # None
    /\ last.data # None
    /\ last.posts = 1
    /\ ShippingLinesOf(TheValue(last.data).TransactionLines)
           = {Len(LinesInfo) + 1}

(* The pair a worker's fetch stored: its own payload with the response its
   own vendor call gave. *)
PairOf(w) == <<TheValue(calls[w].data), TheValue(calls[w].response)>>

(* C26: while calls for one token interleave without a lock, the tax-data
   entry is absent or is the pair one single fetch stored, never one
   call's payload with another call's response; and when every call has
   finished, an entry that is there is the pair of the call that wrote
   last. *)
C26_LastWriterWins ==
    /\ \/ cache[ConcurrentKey] = None
       \/ \E w \in Workers :
             /\ calls[w].wrote
             /\ TheValue(cache_get(cache, ConcurrentKey)) = PairOf(w)
    /\ (/\ \A w \in Workers : calls[w].pc = "done"
        /\ cache[ConcurrentKey] # None)
       => /\ last.hook = "_fetch_new_taxes_data"
          /\ calls[last.line].wrote
          /\ TheValue(cache_get(cache, ConcurrentKey)) = PairOf(last.line)
          /\ TheValue(cache_get(cache, ConcurrentKey))
                 = <<TheValue(last.data), TheValue(last.response)>>

(* Two calls with the same payload both fetched, so both had passed the
   check before either stored; the vendor answered them differently, and
   the entry is the pair of the one that stored last. *)
C26_Witness ==
    /\ \A w \in Workers : calls[w].pc = "done" /\ calls[w].wrote
    /\ \E v, w \in Workers :
          /\ v # w
          /\ calls[v].data = calls[w].data
          /\ calls[v].response # calls[w].response
          /\ last.line = w
          /\ cache[ConcurrentKey] # None
          /\ TheValue(cache_get(cache, ConcurrentKey)) = PairOf(w)
          /\ TheValue(cache_get(cache, ConcurrentKey)) # PairOf(v)

(* C27: a call of get_cached_response_or_fetch whose check said that no
   fetch is needed never fails: its read finds an entry and it returns that
   entry's response, whatever expires or is stored between the check and
   the read. *)
C27_CacheHitPathNeverFails ==
    \A w \in Workers :
        (calls[w].path = "hit" /\ calls[w].pc = "done")
        => /\ calls[w].kind = "return"
           /\ calls[w].response # None

(* C28: no checkout hook hands process_checkout_metadata an empty response
   or one whose Status is "Errors found". *)
C28_MetadataOnlyFromNonErrorResponse ==
    (/\ last.hook \in {"calculate_checkout_total",
                       "calculate_checkout_line_total",
                       "calculate_checkout_shipping"}
     /\ last.processed # None)
    => /\ Truthy(TheValue(last.processed))
       /\ Get(TheValue(last.processed), "Status", "") # "Errors found"

(* C29: the shipping price that calculate_checkout_shipping and
   calculate_order_shipping return from _calculate_checkout_shipping has the
   previous shipping net as its net, and that net plus the TaxAmount of the
   vendor's tax lines with InvoiceLine 0 as its gross. *)
C29_ShippingTaxOnceAndOnlyInGross ==
    (/\ last.hook \in {"calculate_checkout_shipping",
                       "calculate_order_shipping"}
     /\ last.kind = "return"
     /\ last.response # None
     /\ Truthy(TheValue(last.response))
     /\ "error" \notin TheValue(last.response).keys
     /\ Get(TheValue(last.response), "TransactionTaxes", <<>>) # <<>>)
    => /\ last.value.net = last.previous.net
       /\ last.value.gross
              = last.previous.net
                + ShippingTaxOf(Get(TheValue(last.response),
                                    "TransactionTaxes", <<>>))

====
